---- MODULE Spec2Model ----
(***************************************************************************)
(* Model of the FileCheck comparison engine (src/src/fc/filecheck.h).      *)
(*                                                                         *)
(* One call of FC_CompareFilesW is a run of the state machine: the mode    *)
(* dispatcher, the text branch (read, parse lines, Hunt-McIlroy LCS,       *)
(* traceback, resync filter, difference emitter) and the binary branch.    *)
(* Array indices are 0-based as in the C code: C arrays are functions over *)
(* 0..n-1, the parsed line buffers are sequences and line i of the code is *)
(* element i+1 of the sequence.                                            *)
(***************************************************************************)
EXTENDS Integers, Sequences, FiniteSets, TLC

VARIABLES
    pc,                 \* position inside the call
    File1, File2,       \* contents of the two files (sequences of bytes)
    Mode, Flags,        \* FC_CONFIG.Mode, FC_CONFIG.Flags
    ResyncLines,        \* FC_CONFIG.ResyncLines
    Lines1, Lines2,     \* the two _FC_BUFFERs of _FC_LINE built by _FC_ParseLines
    Ctx,                \* _FC_LCS_CONTEXT plus LcsLength and the rows written
    Lcs,                \* LcsA / LcsB after the traceback, and the slots written
    Filtered,           \* FilteredLcsA / FilteredLcsB / FilteredLcsLength
    Callbacks,          \* the FC_DIFF_BLOCKs passed to Config->DiffCallback, in order
    Branch,             \* the branch the dispatcher took: "none", "text" or "binary"
    Mapped,             \* the binary branch created file mappings and views
    Args,               \* Path1, Path2, Config and Config->DiffCallback as passed in
    Env,                \* which files CreateFileW can open; how the OS names devices
    Opens,              \* the files CreateFileW was called on, in order (1 or 2)
    Result,             \* the FC_RESULT the call returns
    Ledger,             \* the handles, mappings, views and heap blocks acquired
                        \* and released so far, in order
    Frame,              \* the locals of the loop under way when the text
                        \* comparison is followed one loop round at a time
    Argv,               \* fc.exe: argv[1 .. argc - 3], the arguments before the files
    ArgIndex,           \* fc.exe: wmain's ArgIndex
    ExitCode            \* fc.exe: what wmain returns

vars == <<pc, File1, File2, Mode, Flags, ResyncLines, Lines1, Lines2,
          Ctx, Lcs, Filtered, Callbacks, Branch, Mapped, Args, Env, Opens, Result,
          Ledger, Frame, Argv, ArgIndex, ExitCode>>

\* the state of fc.exe's wmain around the library call
cli == <<Argv, ArgIndex, ExitCode>>

----------------------------------------------------------------------------
(* Bounds of the model *)

MaxFileLen == 2         \* longest file of the free-content specification
MaxLines == 3           \* most lines per file in the line-sequence specification
MaxResync == 2          \* largest ResyncLines
MaxBinLen == 3          \* longest file of the binary specification
MaxParseLen == 4        \* longest buffer of the line-splitting specification
MaxTabLen == 3          \* longest free text of the tab specification
MaxWsLen == 3           \* longest file of the whitespace specification
MaxOptions == 3         \* most arguments before the two file names of fc.exe
GarbageMax == 3         \* largest small value an uninitialised size_t may hold

----------------------------------------------------------------------------
(* Program constants *)

\* size_t is modelled 16 bits wide: every count and index of the model stays
\* far below it, and (size_t)-1 == SIZE_MAX is the one large value the code uses.
SIZE_MAX == 65535

FC_OK == 0
FC_DIFFERENT == 1
FC_ERROR_IO == 2
FC_ERROR_INVALID_PARAM == 3
FC_ERROR_MEMORY == 4

FC_MODE_TEXT_ASCII == 0
FC_MODE_TEXT_UNICODE == 1
FC_MODE_BINARY == 2
FC_MODE_AUTO == 3

FC_IGNORE_CASE == 1
FC_IGNORE_WS == 2
FC_SHOW_LINE_NUMS == 4
FC_RAW_TABS == 8

FC_DIFF_TYPE_NONE == 0
FC_DIFF_TYPE_CHANGE == 1
FC_DIFF_TYPE_DELETE == 2
FC_DIFF_TYPE_ADD == 3
FC_DIFF_TYPE_SIZE == 4

BUFFER_SIZE == 4096

TAB == 9
LF == 10
CR == 13
SPACE == 32

\* Flags & bit
HasFlag(flags, bit) == (flags \div bit) % 2 = 1

\* size_t arithmetic
SizeInc(x) == (x + 1) % (SIZE_MAX + 1)

\* A faulty variant of SizeDec: the index stops at 0 instead of wrapping.
SizeDecStopsAtZero(x) == IF x = 0 THEN 0 ELSE x - 1

\* --i and currentA - 1 on a size_t: 0 wraps to (size_t)-1
SizeDec(x) == (x - 1) % (SIZE_MAX + 1)

----------------------------------------------------------------------------
(* _FC_BUFFER helpers *)

\* _FC_BufferReplace with a one-element old pattern: every occurrence of
\* oldByte is replaced by the sequence newPattern (<<>> removes it).
RECURSIVE BufferReplace(_, _, _)
BufferReplace(buf, oldByte, newPattern) ==
    IF buf = <<>> THEN <<>>
    ELSE (IF Head(buf) = oldByte THEN newPattern ELSE <<Head(buf)>>)
            \o BufferReplace(Tail(buf), oldByte, newPattern)

----------------------------------------------------------------------------
(* Fingerprint: UINT Hash = Hash * 31 + Character, 32 bits wide.           *)
(* A 32-bit value is kept as <<high 16 bits, low 16 bits>>.                *)

HashStep(h, c) ==
    LET lo == h[2] * 31 + c
        hi == h[1] * 31 + (lo \div 65536)
    IN  <<hi % 65536, lo % 65536>>

\* A faulty variant of _FC_ToLowerAscii: 'A' itself is not folded.
ToLowerAsciiAfterA(c) == IF c > 65 /\ c <= 90 THEN c + 32 ELSE c

\* if (Character >= 'A' && Character <= 'Z') return Character + ('a' - 'A');
_FC_ToLowerAscii(c) == IF c >= 65 /\ c <= 90 THEN c + 32 ELSE c

RECURSIVE ComputeHashFrom(_, _, _)
ComputeHashFrom(h, String, flags) ==
    IF String = <<>> THEN h
    ELSE LET c == Head(String)
         IN  IF HasFlag(flags, FC_IGNORE_WS) /\ (c = SPACE \/ c = TAB)
             THEN ComputeHashFrom(h, Tail(String), flags)
             ELSE ComputeHashFrom(
                    HashStep(h, IF HasFlag(flags, FC_IGNORE_CASE)
                                THEN _FC_ToLowerAscii(c) ELSE c),
                    Tail(String), flags)

_FC_ComputeHash(String, flags) == ComputeHashFrom(<<0, 0>>, String, flags)

\* _FC_StringToLowerUnicode on ASCII bytes: UTF-8 -> UTF-16 -> CharLowerW -> UTF-8
\* maps A-Z to a-z and leaves every other byte below 128 as it is.
_FC_StringToLowerUnicode(String) ==
    [i \in 1..Len(String) |-> _FC_ToLowerAscii(String[i])]

_FC_HashLine(String, mode, flags) ==
    IF HasFlag(flags, FC_IGNORE_CASE) /\ mode = FC_MODE_TEXT_UNICODE
    THEN _FC_ComputeHash(_FC_StringToLowerUnicode(String), flags)
    ELSE _FC_ComputeHash(String, flags)

----------------------------------------------------------------------------
(* _FC_ParseLines *)

IsEol(c) == c = LF \/ c = CR

\* while (Newline < End && *Newline != '\n' && *Newline != '\r') Newline++;
RECURSIVE ScanToEol(_, _)
ScanToEol(Buffer, p) ==
    IF p < Len(Buffer) /\ ~IsEol(Buffer[p + 1]) THEN ScanToEol(Buffer, p + 1) ELSE p

\* A faulty variant of SkipEol: one terminator byte is skipped, not the run.
SkipEolOneByte(Buffer, p) ==
    IF p < Len(Buffer) /\ IsEol(Buffer[p + 1]) THEN p + 1 ELSE p

\* while (Ptr < End && (*Ptr == '\n' || *Ptr == '\r')) Ptr++;
RECURSIVE SkipEol(_, _)
SkipEol(Buffer, p) ==
    IF p < Len(Buffer) /\ IsEol(Buffer[p + 1]) THEN SkipEol(Buffer, p + 1) ELSE p

\* A faulty variant of NormalizeLine: a tab fills up to the next multiple of
\* four columns instead of becoming four spaces.
RECURSIVE ExpandToTabStops(_, _)
ExpandToTabStops(raw, col) ==
    IF raw = <<>> THEN <<>>
    ELSE IF Head(raw) = TAB
         THEN [i \in 1..(4 - (col % 4)) |-> SPACE]
                \o ExpandToTabStops(Tail(raw), col + 4 - (col % 4))
         ELSE <<Head(raw)>> \o ExpandToTabStops(Tail(raw), col + 1)

NormalizeLineTabStops(raw, flags) ==
    LET t1 == IF ~HasFlag(flags, FC_RAW_TABS)
              THEN ExpandToTabStops(raw, 0)
              ELSE raw
    IN  IF HasFlag(flags, FC_IGNORE_WS)
        THEN BufferReplace(BufferReplace(t1, SPACE, <<>>), TAB, <<>>)
        ELSE t1

\* A faulty variant of NormalizeLine: FC_IGNORE_WS removes spaces but not tabs.
NormalizeLineSpacesOnly(raw, flags) ==
    LET t1 == IF ~HasFlag(flags, FC_RAW_TABS)
              THEN BufferReplace(raw, TAB, <<SPACE, SPACE, SPACE, SPACE>>)
              ELSE raw
    IN  IF HasFlag(flags, FC_IGNORE_WS)
        THEN BufferReplace(t1, SPACE, <<>>)
        ELSE t1

\* the normalised text of one raw line
NormalizeLine(raw, flags) ==
    LET t1 == IF ~HasFlag(flags, FC_RAW_TABS)
              THEN BufferReplace(raw, TAB, <<SPACE, SPACE, SPACE, SPACE>>)
              ELSE raw
    IN  IF HasFlag(flags, FC_IGNORE_WS)
        THEN BufferReplace(BufferReplace(t1, SPACE, <<>>), TAB, <<>>)
        ELSE t1

RECURSIVE ParseFrom(_, _, _, _, _)
ParseFrom(Buffer, Ptr, acc, mode, flags) ==
    LET End == Len(Buffer) IN
    IF Ptr = End /\ (End = 0 \/ IsEol(Buffer[End]))
    THEN acc
    ELSE LET Newline == ScanToEol(Buffer, Ptr)
             FinalText == NormalizeLine(SubSeq(Buffer, Ptr + 1, Newline), flags)
             line == [Text |-> FinalText, Length |-> Len(FinalText),
                      Hash |-> _FC_HashLine(FinalText, mode, flags)]
             acc2 == IF HasFlag(flags, FC_IGNORE_WS) /\ Len(FinalText) = 0
                     THEN acc ELSE Append(acc, line)
         IN  IF Newline >= End THEN acc2
             ELSE ParseFrom(Buffer, SkipEol(Buffer, Newline), acc2, mode, flags)

_FC_ParseLines(Buffer, mode, flags) == ParseFrom(Buffer, 0, <<>>, mode, flags)

----------------------------------------------------------------------------
(* _FC_FindLcs: match lists over file B *)

\* for (i = 0; i < pBufferB->Count; ++i): _FC_HashMapInsert and push-front of
\* MatchPool[i]; the map takes a hash to its MatchHead chain (largest IndexInB first).
RECURSIVE BuildMatchLists(_, _, _)
BuildMatchLists(LinesB, i, map) ==
    IF i >= Len(LinesB) THEN map
    ELSE LET hash == LinesB[i + 1].Hash
             old == IF hash \in DOMAIN map THEN map[hash] ELSE <<>>
         IN  BuildMatchLists(LinesB, i + 1,
                [h \in DOMAIN map \cup {hash} |->
                    IF h = hash THEN <<i>> \o old ELSE map[h]])

\* A faulty variant of BinarySearch: the comparison with the threshold is not
\* strict, so a position of B that is already a threshold is searched past.
RECURSIVE BinarySearchNonStrict(_, _, _, _)
BinarySearchNonStrict(Thresholds, IndexInB, low, high) ==
    IF low <= high
    THEN LET mid == low + (high - low) \div 2
         IN  IF IndexInB >= Thresholds[mid]
             THEN BinarySearchNonStrict(Thresholds, IndexInB, mid + 1, high)
             ELSE BinarySearchNonStrict(Thresholds, IndexInB, low, mid - 1)
    ELSE low

\* while (low <= high) { mid = ...; if (IndexInB > Thresholds[mid]) low = mid + 1;
\* else high = mid - 1; }  k = low
RECURSIVE BinarySearch(_, _, _, _)
BinarySearch(Thresholds, IndexInB, low, high) ==
    IF low <= high
    THEN LET mid == low + (high - low) \div 2
         IN  IF IndexInB > Thresholds[mid]
             THEN BinarySearch(Thresholds, IndexInB, mid + 1, high)
             ELSE BinarySearch(Thresholds, IndexInB, low, mid - 1)
    ELSE low

\* A faulty variant of MatchStep: the threshold test is written the wrong way
\* round, so no match ever lowers a threshold.
MatchStepReversedTest(ctx, i, IndexInB) ==
    LET k == BinarySearch(ctx.Thresholds, IndexInB, 1, ctx.LcsLength)
    IN  IF IndexInB > ctx.Thresholds[k]
        THEN [Thresholds |-> [ctx.Thresholds EXCEPT ![k] = IndexInB],
              PredecessorsA |-> [ctx.PredecessorsA EXCEPT
                                    ![i] = IF k > 1 THEN ctx.Thresholds[k - 1]
                                           ELSE SIZE_MAX],
              PredecessorsB |-> [ctx.PredecessorsB EXCEPT ![i] = IndexInB],
              Written |-> ctx.Written \cup {i},
              LcsLength |-> IF k > ctx.LcsLength THEN k ELSE ctx.LcsLength]
        ELSE ctx

\* the body of the loop over the matches of line i of A
MatchStep(ctx, i, IndexInB) ==
    LET k == BinarySearch(ctx.Thresholds, IndexInB, 1, ctx.LcsLength)
    IN  IF IndexInB < ctx.Thresholds[k]
        THEN [Thresholds |-> [ctx.Thresholds EXCEPT ![k] = IndexInB],
              PredecessorsA |-> [ctx.PredecessorsA EXCEPT
                                    ![i] = IF k > 1 THEN ctx.Thresholds[k - 1]
                                           ELSE SIZE_MAX],
              PredecessorsB |-> [ctx.PredecessorsB EXCEPT ![i] = IndexInB],
              Written |-> ctx.Written \cup {i},
              LcsLength |-> IF k > ctx.LcsLength THEN k ELSE ctx.LcsLength]
        ELSE ctx

\* for (match = entry->MatchHead; match != NULL; match = match->Next)
RECURSIVE MatchChain(_, _, _)
MatchChain(ctx, i, chain) ==
    IF chain = <<>> THEN ctx
    ELSE MatchChain(MatchStep(ctx, i, Head(chain)), i, Tail(chain))

\* for (i = 0; i < pBufferA->Count; ++i)
RECURSIVE MainLoop(_, _, _, _)
MainLoop(ctx, LinesA, MapB, i) ==
    IF i >= Len(LinesA) THEN ctx
    ELSE LET hashA == LinesA[i + 1].Hash
         IN  MainLoop(IF hashA \in DOMAIN MapB
                      THEN MatchChain(ctx, i, MapB[hashA]) ELSE ctx,
                      LinesA, MapB, i + 1)

\* The arrays as allocated and initialised before the main loop.  PredecessorsA
\* and PredecessorsB come from HeapAlloc without HEAP_ZERO_MEMORY: a row holds a
\* defined value only once it is in Written.
InitialCtx(CountA) ==
    [Thresholds |-> [k \in 0..CountA |-> SIZE_MAX],
     PredecessorsA |-> [r \in 0..(CountA - 1) |-> 0],
     PredecessorsB |-> [r \in 0..(CountA - 1) |-> 0],
     Written |-> {},
     LcsLength |-> 0]

LcsMainLoop(LinesA, LinesB) ==
    MainLoop(InitialCtx(Len(LinesA)), LinesA, BuildMatchLists(LinesB, 0, <<>>), 0)

----------------------------------------------------------------------------
(* _FC_FindLcs: traceback *)

\* what an uninitialised size_t may hold
Garbage == (0..GarbageMax) \cup {SIZE_MAX}

\* the content of an array some rows of which were never written: heap gives the
\* value an unwritten row happens to hold
Overlay(array, written, heap) ==
    [r \in DOMAIN array |-> IF r \in written THEN array[r] ELSE heap[r]]

\* for (i = from; i != (size_t)-1; --i) if (PredecessorsB[i] == currentB) { currentA = i; break; }
RECURSIVE ScanDown(_, _, _, _)
ScanDown(PredecessorsB, i, currentB, currentA) ==
    IF i < 0 THEN currentA
    ELSE IF PredecessorsB[i] = currentB THEN i
    ELSE ScanDown(PredecessorsB, i - 1, currentB, currentA)

\* for (i = LcsLength; i > 0; --i) { LcsA[i-1] = currentA; LcsB[i-1] = currentB; ... }
RECURSIVE TraceLoop(_, _, _, _, _, _)
TraceLoop(PredecessorsA, PredecessorsB, i, currentA, currentB, lcs) ==
    IF i = 0 THEN lcs
    ELSE LET lcs2 == [A |-> [lcs.A EXCEPT ![i - 1] = currentA],
                      B |-> [lcs.B EXCEPT ![i - 1] = currentB],
                      Written |-> lcs.Written \cup {i - 1}]
             prevB == PredecessorsA[currentA]
         IN  IF prevB = SIZE_MAX THEN lcs2
             ELSE TraceLoop(PredecessorsA, PredecessorsB, i - 1,
                            ScanDown(PredecessorsB, currentA - 1, prevB, currentA),
                            prevB, lcs2)

\* LcsA and LcsB as allocated (HeapAlloc without HEAP_ZERO_MEMORY)
InitialLcs(LcsLength) ==
    [A |-> [s \in 0..(LcsLength - 1) |-> 0],
     B |-> [s \in 0..(LcsLength - 1) |-> 0],
     Written |-> {}]

Traceback(ctx, CountA, PredecessorsA, PredecessorsB) ==
    LET currentB == ctx.Thresholds[ctx.LcsLength]
        currentA == ScanDown(PredecessorsB, CountA - 1, currentB, 0)
    IN  TraceLoop(PredecessorsA, PredecessorsB, ctx.LcsLength, currentA, currentB,
                  InitialLcs(ctx.LcsLength))

----------------------------------------------------------------------------
(* _FC_FilterLcsForResync *)

RECURSIVE RunEnd(_, _, _, _)
RunEnd(LcsA, LcsB, LcsLength, runEnd) ==
    IF /\ runEnd + 1 < LcsLength
       /\ LcsA[runEnd + 1] = SizeInc(LcsA[runEnd])
       /\ LcsB[runEnd + 1] = SizeInc(LcsB[runEnd])
    THEN RunEnd(LcsA, LcsB, LcsLength, runEnd + 1)
    ELSE runEnd

RECURSIVE FilterLoop(_, _, _, _, _, _)
FilterLoop(LcsA, LcsB, LcsLength, resync, i, acc) ==
    IF i >= LcsLength THEN acc
    ELSE LET runEnd == RunEnd(LcsA, LcsB, LcsLength, i)
             runLength == (runEnd - i) + 1
             acc2 == IF runLength >= resync
                     THEN [A |-> acc.A \o [n \in 1..runLength |-> LcsA[i + n - 1]],
                           B |-> acc.B \o [n \in 1..runLength |-> LcsB[i + n - 1]]]
                     ELSE acc
         IN  FilterLoop(LcsA, LcsB, LcsLength, resync, runEnd + 1, acc2)

\* A, B: the filtered arrays (element i of the C array is A[i+1]); IsNull: the
\* output pointers are NULL (nothing was allocated)
_FC_FilterLcsForResync(LcsA, LcsB, LcsLength, resync) ==
    IF LcsLength = 0 \/ resync <= 1
    THEN [A |-> [n \in 1..LcsLength |-> LcsA[n - 1]],
          B |-> [n \in 1..LcsLength |-> LcsB[n - 1]],
          Length |-> LcsLength,
          IsNull |-> LcsLength = 0]
    ELSE LET f == FilterLoop(LcsA, LcsB, LcsLength, resync, 0, [A |-> <<>>, B |-> <<>>])
         IN  [A |-> f.A, B |-> f.B, Length |-> Len(f.A), IsNull |-> Len(f.A) = 0]

----------------------------------------------------------------------------
(* _FC_ProcessLcs *)

RECURSIVE EmitLoop(_, _, _, _, _, _, _, _)
EmitLoop(CountA, CountB, LcsA, LcsB, LcsLength, i, IndexA, IndexB) ==
    IF i > LcsLength THEN <<>>
    ELSE LET LcsLineA == IF i < LcsLength THEN LcsA[i + 1] ELSE CountA
             LcsLineB == IF i < LcsLength THEN LcsB[i + 1] ELSE CountB
             hasAdds == IndexB < LcsLineB
             hasDeletes == IndexA < LcsLineA
             block == [Type |-> IF hasAdds /\ hasDeletes THEN FC_DIFF_TYPE_CHANGE
                                ELSE IF hasAdds THEN FC_DIFF_TYPE_ADD
                                ELSE FC_DIFF_TYPE_DELETE,
                       StartA |-> IndexA, EndA |-> LcsLineA,
                       StartB |-> IndexB, EndB |-> LcsLineB]
         IN  (IF hasAdds \/ hasDeletes THEN <<block>> ELSE <<>>)
                \o EmitLoop(CountA, CountB, LcsA, LcsB, LcsLength, i + 1,
                            SizeInc(LcsLineA), SizeInc(LcsLineB))

\* A faulty variant of _FC_ProcessLcs: the blocks are emitted but the result is
\* left at FC_OK.
ProcessLcsResultNotSet(CountA, CountB, LcsA, LcsB, LcsLength) ==
    IF LcsLength = CountA /\ LcsLength = CountB
    THEN [Result |-> FC_OK, Blocks |-> <<>>]
    ELSE [Result |-> FC_OK,
          Blocks |-> EmitLoop(CountA, CountB, LcsA, LcsB, LcsLength, 0, 0, 0)]

_FC_ProcessLcs(CountA, CountB, LcsA, LcsB, LcsLength) ==
    IF LcsLength = CountA /\ LcsLength = CountB
    THEN [Result |-> FC_OK, Blocks |-> <<>>]
    ELSE [Result |-> FC_DIFFERENT,
          Blocks |-> EmitLoop(CountA, CountB, LcsA, LcsB, LcsLength, 0, 0, 0)]

----------------------------------------------------------------------------
(* Text classifier and binary comparison *)

Min(a, b) == IF a < b THEN a ELSE b

IsPrintable(c) == (c >= 32 /\ c <= 126) \/ c = 9 \/ c = 10 \/ c = 13

\* A faulty variant of _FC_IsProbablyTextBuffer: the ratio test is strict.
IsProbablyTextBufferStrictRatio(Buffer) ==
    LET n == Len(Buffer) IN
    IF n = 0 THEN FALSE
    ELSE IF n >= 3 /\ Buffer[1] = 239 /\ Buffer[2] = 187 /\ Buffer[3] = 191 THEN TRUE
    ELSE IF n >= 2 /\ Buffer[1] = 255 /\ Buffer[2] = 254 THEN TRUE
    ELSE IF n >= 2 /\ Buffer[1] = 254 /\ Buffer[2] = 255 THEN TRUE
    ELSE IF \E i \in 1..n : Buffer[i] = 0 THEN FALSE
    ELSE 10 * Cardinality({i \in 1..n : IsPrintable(Buffer[i])}) > 9 * n

\* (double)printable / BufferLength >= 0.90, BufferLength <= 4096
_FC_IsProbablyTextBuffer(Buffer) ==
    LET n == Len(Buffer) IN
    IF n = 0 THEN FALSE
    ELSE IF n >= 3 /\ Buffer[1] = 239 /\ Buffer[2] = 187 /\ Buffer[3] = 191 THEN TRUE
    ELSE IF n >= 2 /\ Buffer[1] = 255 /\ Buffer[2] = 254 THEN TRUE
    ELSE IF n >= 2 /\ Buffer[1] = 254 /\ Buffer[2] = 255 THEN TRUE
    ELSE IF \E i \in 1..n : Buffer[i] = 0 THEN FALSE
    ELSE 10 * Cardinality({i \in 1..n : IsPrintable(Buffer[i])}) >= 9 * n

\* ReadFile of the first BUFFER_SIZE bytes of an existing, readable file
_FC_IsProbablyTextFileW(File) ==
    LET bytesRead == Min(Len(File), BUFFER_SIZE)
    IN  IF bytesRead = 0 THEN FALSE
        ELSE _FC_IsProbablyTextBuffer(SubSeq(File, 1, bytesRead))

\* A faulty variant of SizeBlock: both sizes are taken from the first file.
SizeBlockFirstSizeTwice(File1Size, File2Size) ==
    [Type |-> FC_DIFF_TYPE_SIZE,
     StartA |-> File1Size, EndA |-> File1Size,
     StartB |-> File1Size, EndB |-> File1Size]

\* FC_DIFF_BLOCK block = { FC_DIFF_TYPE_SIZE, File1Size, File1Size, File2Size, File2Size }
SizeBlock(File1Size, File2Size) ==
    [Type |-> FC_DIFF_TYPE_SIZE,
     StartA |-> File1Size, EndA |-> File1Size,
     StartB |-> File2Size, EndB |-> File2Size]

\* A faulty variant of BinaryScan: the scan stops at the first mismatch.
BinaryScanStopsAtFirst(Buffer1, Buffer2, i) ==
    LET Mismatches == {j \in i..(Len(Buffer1) - 1) : Buffer1[j + 1] # Buffer2[j + 1]}
    IN  IF Mismatches = {} THEN <<>>
        ELSE LET j == CHOOSE m \in Mismatches : \A o \in Mismatches : m <= o
             IN  <<[Type |-> FC_DIFF_TYPE_CHANGE,
                    StartA |-> j, EndA |-> Buffer1[j + 1],
                    StartB |-> j, EndB |-> Buffer2[j + 1]]>>

\* for (i = 0; i < CompareSize; ++i) if (Buffer1[i] != Buffer2[i]) callback(...)
RECURSIVE BinaryScan(_, _, _)
BinaryScan(Buffer1, Buffer2, i) ==
    IF i >= Len(Buffer1) THEN <<>>
    ELSE (IF Buffer1[i + 1] # Buffer2[i + 1]
          THEN <<[Type |-> FC_DIFF_TYPE_CHANGE,
                  StartA |-> i, EndA |-> Buffer1[i + 1],
                  StartB |-> i, EndB |-> Buffer2[i + 1]]>>
          ELSE <<>>)
            \o BinaryScan(Buffer1, Buffer2, i + 1)

----------------------------------------------------------------------------
(* Paths and _FC_ToCanonicalPath.                                          *)
(* A path is NULL or a record: Type is what RtlDetermineDosPathNameType_U  *)
(* returns for it, Root the part of the NT namespace the native conversion *)
(* resolves it into, Dir its directory components, Last its last           *)
(* component (a sequence of characters), ValidUtf8 whether its UTF-8 form  *)
(* is well formed.                                                         *)

\* the null pointer passed for a path
NULL == [Type |-> "NULL", Root |-> "", Dir |-> <<>>, Last |-> <<>>, ValidUtf8 |-> FALSE]

UpperCase == <<"A", "C", "L", "M", "N", "O", "P", "R", "T", "U", "X">>
LowerCase == <<"a", "c", "l", "m", "n", "o", "p", "r", "t", "u", "x">>

\* the case folding of _wcsicmp / _wcsnicmp
ToLowerW(c) ==
    IF \E i \in 1..Len(UpperCase) : UpperCase[i] = c
    THEN LowerCase[CHOOSE i \in 1..Len(UpperCase) : UpperCase[i] = c]
    ELSE c

\* _wcsicmp(a, b) == 0
EqualNoCase(a, b) ==
    /\ Len(a) = Len(b)
    /\ \A i \in 1..Len(a) : ToLowerW(a[i]) = ToLowerW(b[i])

g_ReservedDevices ==
    {<<"C", "O", "N">>, <<"P", "R", "N">>, <<"A", "U", "X">>, <<"N", "U", "L">>}
        \cup {<<"C", "O", "M", d>> : d \in {"1", "2", "3", "4", "5", "6", "7", "8", "9"}}
        \cup {<<"L", "P", "T", d>> : d \in {"1", "2", "3", "4", "5", "6", "7", "8", "9"}}

\* the name up to its first '.' or ':'
RECURSIVE DosStem(_)
DosStem(name) ==
    IF name = <<>> \/ Head(name) = "." \/ Head(name) = ":" THEN <<>>
    ELSE <<Head(name)>> \o DosStem(Tail(name))

\* The DOS device the native conversion takes the path for, or <<>>.  A legacy
\* system takes every last component whose stem is a device name for the
\* device; a current system only a path that is nothing but the device name.
DosDeviceOf(path, legacy) ==
    LET stem == IF legacy THEN DosStem(path.Last) ELSE path.Last
        isDevice == /\ \E dev \in g_ReservedDevices : EqualNoCase(stem, dev)
                    /\ path.Type # "RtlPathTypeUncAbsolute"
                    /\ (legacy \/ (path.Type = "RtlPathTypeRelative" /\ path.Dir = <<>>))
    IN  IF isDevice THEN stem ELSE <<>>

NtPrefix(path) ==
    IF path.Root = "device" THEN <<"\\", "D", "e", "v", "i", "c", "e", "\\">>
    ELSE IF path.Root = "pipe" THEN <<"\\", "?", "?", "\\", "P", "I", "P", "E", "\\">>
    ELSE IF path.Type = "RtlPathTypeUncAbsolute"
    THEN <<"\\", "?", "?", "\\", "U", "N", "C", "\\", "s", "\\">>
    ELSE <<"\\", "?", "?", "\\", "C", ":", "\\">>

\* RtlDosPathNameToNtPathName_U_WithStatus: Status and NtPath.Buffer
RtlDosPathNameToNtPathName_U_WithStatus(path, legacy) ==
    IF path.Dir = <<>> /\ path.Last = <<>>
    THEN [Success |-> FALSE, Buffer |-> <<>>]
    ELSE IF DosDeviceOf(path, legacy) # <<>>
    THEN [Success |-> TRUE,
          Buffer |-> <<"\\", "?", "?", "\\">> \o DosDeviceOf(path, legacy)]
    ELSE [Success |-> TRUE,
          Buffer |-> NtPrefix(path)
                        \o (IF path.Dir = <<>> THEN <<>> ELSE path.Dir \o <<"\\">>)
                        \o path.Last]

\* _wcsnicmp(s, prefix, n) == 0 with n = Len(prefix)
HasPrefixNoCase(s, prefix) ==
    /\ Len(s) >= Len(prefix)
    /\ EqualNoCase(SubSeq(s, 1, Len(prefix)), prefix)

\* base = wcsrchr(NtPath.Buffer, L'\\'), moved past the backslash; the whole
\* buffer when it holds no backslash
BaseOf(Buffer) ==
    LET Slashes == {i \in 1..Len(Buffer) : Buffer[i] = "\\"}
    IN  IF Slashes = {} THEN Buffer
        ELSE LET last == CHOOSE i \in Slashes : \A j \in Slashes : j <= i
             IN  SubSeq(Buffer, last + 1, Len(Buffer))

\* A faulty variant of _FC_ToCanonicalPath: the path type is not looked at
\* (steps 1 and 2 are left out).
ToCanonicalPathAnyType(InputPath, legacy) ==
    IF InputPath = NULL THEN FALSE
    ELSE LET nt == RtlDosPathNameToNtPathName_U_WithStatus(InputPath, legacy)
         IN  IF ~nt.Success THEN FALSE
             ELSE IF /\ Len(nt.Buffer) >= 8
                     /\ \/ HasPrefixNoCase(nt.Buffer,
                                <<"\\", "D", "e", "v", "i", "c", "e", "\\">>)
                        \/ HasPrefixNoCase(nt.Buffer,
                                <<"\\", "?", "?", "\\", "P", "I", "P", "E", "\\">>)
             THEN FALSE
             ELSE IF \E dev \in g_ReservedDevices : EqualNoCase(BaseOf(nt.Buffer), dev)
             THEN FALSE
             ELSE TRUE

\* A faulty variant of _FC_ToCanonicalPath: the reserved names are not looked
\* for (step 4 is left out).
ToCanonicalPathNoDeviceCheck(InputPath, legacy) ==
    IF InputPath = NULL THEN FALSE
    ELSE IF InputPath.Type \notin {"RtlPathTypeUncAbsolute", "RtlPathTypeDriveAbsolute",
                                   "RtlPathTypeDriveRelative", "RtlPathTypeRooted",
                                   "RtlPathTypeRelative"}
    THEN FALSE
    ELSE LET nt == RtlDosPathNameToNtPathName_U_WithStatus(InputPath, legacy)
         IN  IF ~nt.Success THEN FALSE
             ELSE IF /\ Len(nt.Buffer) >= 8
                     /\ \/ HasPrefixNoCase(nt.Buffer,
                                <<"\\", "D", "e", "v", "i", "c", "e", "\\">>)
                        \/ HasPrefixNoCase(nt.Buffer,
                                <<"\\", "?", "?", "\\", "P", "I", "P", "E", "\\">>)
             THEN FALSE
             ELSE TRUE

\* _FC_ToCanonicalPath: TRUE when the path is accepted
_FC_ToCanonicalPath(InputPath, legacy) ==
    IF InputPath = NULL THEN FALSE
    ELSE IF InputPath.Type \in {"RtlPathTypeUnknown", "RtlPathTypeLocalDevice",
                                "RtlPathTypeRootLocalDevice"}
    THEN FALSE
    ELSE IF InputPath.Type \notin {"RtlPathTypeUncAbsolute", "RtlPathTypeDriveAbsolute",
                                   "RtlPathTypeDriveRelative", "RtlPathTypeRooted",
                                   "RtlPathTypeRelative"}
    THEN FALSE
    ELSE LET nt == RtlDosPathNameToNtPathName_U_WithStatus(InputPath, legacy)
         IN  IF ~nt.Success THEN FALSE
             ELSE IF /\ Len(nt.Buffer) >= 8
                     /\ \/ HasPrefixNoCase(nt.Buffer,
                                <<"\\", "D", "e", "v", "i", "c", "e", "\\">>)
                        \/ HasPrefixNoCase(nt.Buffer,
                                <<"\\", "?", "?", "\\", "P", "I", "P", "E", "\\">>)
             THEN FALSE
             ELSE IF \E dev \in g_ReservedDevices : EqualNoCase(BaseOf(nt.Buffer), dev)
             THEN FALSE
             ELSE TRUE

----------------------------------------------------------------------------
(* The call as a state machine *)

CountA == Len(Lines1)
CountB == Len(Lines2)

NoCtx == InitialCtx(0)
NoLcs == InitialLcs(0)
NoFiltered == [A |-> <<>>, B |-> <<>>, Length |-> 0, IsNull |-> TRUE]

\* _FC_FindLcs as a whole: every value it can return on two line sequences, over
\* every content of the rows and slots it reads without having written them
FindLcsTracebacks(ctx, countA) ==
    IF ctx.LcsLength > 0
    THEN {Traceback(ctx, countA,
                    Overlay(ctx.PredecessorsA, ctx.Written, heapA),
                    Overlay(ctx.PredecessorsB, ctx.Written, heapB)) :
            heapA \in [(0..(countA - 1)) \ ctx.Written -> Garbage],
            heapB \in [(0..(countA - 1)) \ ctx.Written -> Garbage]}
    ELSE {NoLcs}

FindLcsFiltered(ctx, lcs, resync) ==
    {_FC_FilterLcsForResync(Overlay(lcs.A, lcs.Written, heapA),
                            Overlay(lcs.B, lcs.Written, heapB),
                            ctx.LcsLength, resync) :
        heapA \in [(0..(ctx.LcsLength - 1)) \ lcs.Written -> Garbage],
        heapB \in [(0..(ctx.LcsLength - 1)) \ lcs.Written -> Garbage]}

FindLcsResults(LinesA, LinesB, resync) ==
    LET countA == Len(LinesA)
        countB == Len(LinesB)
    IN  IF countA = 0 /\ countB = 0 THEN {FC_OK}
        ELSE IF countA = 0 \/ countB = 0 THEN {FC_DIFFERENT}
        ELSE LET ctx == LcsMainLoop(LinesA, LinesB)
             IN  IF ctx.LcsLength = countA /\ ctx.LcsLength = countB THEN {FC_OK}
                 ELSE UNION {
                        {IF ctx.LcsLength > 0 /\ f.Length = 0 /\ f.IsNull
                         THEN FC_ERROR_MEMORY
                         ELSE _FC_ProcessLcs(countA, countB, f.A, f.B, f.Length).Result :
                            f \in FindLcsFiltered(ctx, lcs, resync)} :
                        lcs \in FindLcsTracebacks(ctx, countA)}

\* The resources of a call.  A resource is <<kind, n, k>>: n is the file it
\* belongs to (0 when the call has one of its kind), k the line (0 otherwise).
\* Ledger holds, in order, <<"acquire", x>> when x is obtained, <<"release", x>>
\* when it is freed, closed or unmapped, <<"null", x>> when the pointer that held
\* x is set to NULL, and <<"fail", x>> when the call that would obtain x fails.
Acquired(x) == <<"acquire", x>>
Released(x) == <<"release", x>>
Nulled(x) == <<"null", x>>
Failed(x) == <<"fail", x>>

WidePath(n) == <<"WidePath", n, 0>>
NtPath(n) == <<"NtPath.Buffer", n, 0>>
CanonicalPath(n) == <<"CanonicalPath", n, 0>>
ClassifierFile(n) == <<"hFile", n, 0>>
ClassifierBuffer(n) == <<"buffer", n, 0>>
FileHandle(n) == <<"FileHandle", n, 0>>
Buffer(n) == <<"Buffer", n, 0>>
LineText(n, k) == <<"line.Text", n, k>>
LineBuffer(n) == <<"pLineBuffer->pData", n, 0>>
LowerString(n) == <<"LowerString", n, 0>>
Buckets == <<"MapB.Buckets", 0, 0>>
EntryPool == <<"MapB.EntryPool", 0, 0>>
MatchPool == <<"MatchPool", 0, 0>>
ThresholdsBlock == <<"Ctx.Thresholds", 0, 0>>
PredecessorsABlock == <<"Ctx.PredecessorsA", 0, 0>>
PredecessorsBBlock == <<"Ctx.PredecessorsB", 0, 0>>
LcsABlock == <<"LcsA", 0, 0>>
LcsBBlock == <<"LcsB", 0, 0>>
FilteredLcsA == <<"FilteredLcsA", 0, 0>>
FilteredLcsB == <<"FilteredLcsB", 0, 0>>
MapHandle(n) == <<"MapHandle", n, 0>>
View(n) == <<"MapViewOfFile", n, 0>>
FileSize(n) == <<"GetFileSizeEx", n, 0>>
FileRead(n) == <<"ReadFile", n, 0>>

\* no call fails other than CreateFileW on a file that does not open
NoFailure == <<"none", 0, 0>>

\* the call that would obtain x is the one that fails in this run
Fails(x) == Env.Fail = x

\* the pointer or handle variable of x holds a value: it was assigned and not
\* set to NULL since (a freed pointer keeps its value)
IsSet(l, x) ==
    LET events == {i \in DOMAIN l : l[i][2] = x /\ l[i][1] # "fail"}
    IN  /\ events # {}
        /\ l[CHOOSE i \in events : \A j \in events : j <= i][1] # "null"

\* if (p) HeapFree(p), for each p of xs in order (likewise CloseHandle and
\* UnmapViewOfFile)
FreeIfSet(l, xs) ==
    LET set == SelectSeq(xs, LAMBDA x : IsSet(l, x))
    IN  l \o [i \in 1..Len(set) |-> Released(set[i])]

\* the obtaining of x, or its failure
Obtain(x) == IF Fails(x) THEN Failed(x) ELSE Acquired(x)

\* cleanup of FC_CompareFilesW, then cleanup of FC_CompareFilesUtf8 when the call
\* came through it
ApiCleanup(l) ==
    FreeIfSet(FreeIfSet(l, <<CanonicalPath(1), CanonicalPath(2)>>),
              <<WidePath(1), WidePath(2)>>)

\* _FC_FreeLineBufferContents of the line buffer of file n
_FC_FreeLineBufferContents(l, n, lines) ==
    FreeIfSet(l \o [k \in 1..Len(lines) |-> Released(LineText(n, k))],
              <<LineBuffer(n)>>)

\* A faulty variant of TextCleanup: Buffer1 is not freed.
TextCleanupKeepsBuffer1(l, linesA, linesB) ==
    _FC_FreeLineBufferContents(
        _FC_FreeLineBufferContents(FreeIfSet(l, <<Buffer(2)>>), 1, linesA),
        2, linesB)

\* cleanup of _FC_CompareFilesText
TextCleanup(l, linesA, linesB) ==
    _FC_FreeLineBufferContents(
        _FC_FreeLineBufferContents(FreeIfSet(l, <<Buffer(1), Buffer(2)>>), 1, linesA),
        2, linesB)

\* cleanup of _FC_FindLcs
LcsCleanup(l) ==
    FreeIfSet(l, <<Buckets, EntryPool, MatchPool, ThresholdsBlock,
                   PredecessorsABlock, PredecessorsBBlock, LcsABlock, LcsBBlock,
                   FilteredLcsA, FilteredLcsB>>)

\* cleanup of _FC_CompareFilesBinary
BinaryCleanup(l) ==
    FreeIfSet(l, <<View(1), View(2), MapHandle(1), MapHandle(2),
                   FileHandle(1), FileHandle(2)>>)

\* the ledger when _FC_FindLcs returns through its cleanup label, and its callers
\* through theirs
ReturnFromLcs(l) == ApiCleanup(TextCleanup(LcsCleanup(l), Lines1, Lines2))

\* FC_CompareFilesUtf8: the null checks and the conversion of both paths, then
\* the call of FC_CompareFilesW.  When HeapAlloc fails in _FC_ConvertUtf8ToWide
\* nothing sets the last error, so the result depends on the error code an
\* earlier call left behind.
FC_CompareFilesUtf8 ==
    /\ pc = "utf8"
    /\ IF \/ Args.Path1 = NULL \/ Args.Path2 = NULL
          \/ ~Args.Config \/ ~Args.DiffCallback
       THEN Result' = FC_ERROR_INVALID_PARAM /\ pc' = "done" /\ Ledger' = Ledger
       ELSE IF ~Args.Path1.ValidUtf8
       THEN Result' = FC_ERROR_INVALID_PARAM /\ pc' = "done" /\ Ledger' = Ledger
       ELSE IF Fails(WidePath(1))
       THEN /\ Result' \in {FC_ERROR_INVALID_PARAM, FC_ERROR_MEMORY}
            /\ pc' = "done"
            /\ Ledger' = Ledger \o <<Failed(WidePath(1))>>
       ELSE IF ~Args.Path2.ValidUtf8
       THEN /\ Result' = FC_ERROR_INVALID_PARAM
            /\ pc' = "done"
            /\ Ledger' = ApiCleanup(Ledger \o <<Acquired(WidePath(1))>>)
       ELSE IF Fails(WidePath(2))
       THEN /\ Result' \in {FC_ERROR_INVALID_PARAM, FC_ERROR_MEMORY}
            /\ pc' = "done"
            /\ Ledger' = ApiCleanup(Ledger \o <<Acquired(WidePath(1)),
                                                Failed(WidePath(2))>>)
       ELSE /\ Result' = Result
            /\ pc' = "wide"
            /\ Ledger' = Ledger \o <<Acquired(WidePath(1)), Acquired(WidePath(2))>>
    /\ UNCHANGED <<cli, Frame, File1, File2, Mode, Flags, ResyncLines, Lines1, Lines2,
                   Ctx, Lcs, Filtered, Callbacks, Branch, Mapped, Args, Env, Opens>>

\* ntPathInitialized: the native conversion was called and succeeded
NtPathInitialized(InputPath, legacy) ==
    /\ InputPath # NULL
    /\ InputPath.Type \in {"RtlPathTypeUncAbsolute", "RtlPathTypeDriveAbsolute",
                           "RtlPathTypeDriveRelative", "RtlPathTypeRooted",
                           "RtlPathTypeRelative"}
    /\ RtlDosPathNameToNtPathName_U_WithStatus(InputPath, legacy).Success

\* _FC_ToCanonicalPath(Path, &CanonicalPath) succeeds: the path is accepted and
\* the copy of step 5 is allocated
CanonicalPathOut(n, InputPath) ==
    _FC_ToCanonicalPath(InputPath, Env.LegacyDosDevices) /\ ~Fails(CanonicalPath(n))

\* what _FC_ToCanonicalPath acquires and releases
CanonicalPathLedger(l, n, InputPath) ==
    IF ~_FC_ToCanonicalPath(InputPath, Env.LegacyDosDevices)
    THEN IF NtPathInitialized(InputPath, Env.LegacyDosDevices)
         THEN l \o <<Acquired(NtPath(n)), Released(NtPath(n))>>
         ELSE l
    ELSE l \o <<Acquired(NtPath(n)), Obtain(CanonicalPath(n)), Released(NtPath(n))>>

\* FC_CompareFilesW: the null checks and _FC_ToCanonicalPath of both paths, then
\* the call of _FC_CompareFilesInternal
FC_CompareFilesW ==
    /\ pc = "wide"
    /\ IF \/ Args.Path1 = NULL \/ Args.Path2 = NULL
          \/ ~Args.Config \/ ~Args.DiffCallback
       THEN /\ Result' = FC_ERROR_INVALID_PARAM
            /\ pc' = "done"
            /\ Ledger' = ApiCleanup(Ledger)
       ELSE IF ~CanonicalPathOut(1, Args.Path1)
       THEN /\ Result' = FC_ERROR_INVALID_PARAM
            /\ pc' = "done"
            /\ Ledger' = ApiCleanup(CanonicalPathLedger(Ledger, 1, Args.Path1))
       ELSE IF ~CanonicalPathOut(2, Args.Path2)
       THEN /\ Result' = FC_ERROR_INVALID_PARAM
            /\ pc' = "done"
            /\ Ledger' = ApiCleanup(CanonicalPathLedger(
                            CanonicalPathLedger(Ledger, 1, Args.Path1), 2, Args.Path2))
       ELSE /\ Result' = Result
            /\ pc' = "dispatch"
            /\ Ledger' = CanonicalPathLedger(
                            CanonicalPathLedger(Ledger, 1, Args.Path1), 2, Args.Path2)
    /\ UNCHANGED <<cli, Frame, File1, File2, Mode, Flags, ResyncLines, Lines1, Lines2,
                   Ctx, Lcs, Filtered, Callbacks, Branch, Mapped, Args, Env, Opens>>

\* CreateFileW(Path, GENERIC_READ, ..., OPEN_EXISTING, ...) succeeds on file n
Openable(n) == Env.Openable[n]

\* BOOL isText = _FC_IsProbablyTextFileW(Path): FALSE when the file does not
\* open, when the read buffer is not allocated and when ReadFile fails
IsTextFile(n, File) ==
    /\ Openable(n)
    /\ ~Fails(ClassifierBuffer(n))
    /\ ~Fails(FileRead(n))
    /\ _FC_IsProbablyTextFileW(File)

\* what _FC_IsProbablyTextFileW acquires and releases on file n
ClassifierLedger(l, n) ==
    IF ~Openable(n) THEN l
    ELSE IF Fails(ClassifierBuffer(n))
    THEN l \o <<Acquired(ClassifierFile(n)), Failed(ClassifierBuffer(n)),
                Released(ClassifierFile(n))>>
    ELSE l \o <<Acquired(ClassifierFile(n)), Acquired(ClassifierBuffer(n))>>
           \o (IF Fails(FileRead(n)) THEN <<Failed(FileRead(n))>> ELSE <<>>)
           \o <<Released(ClassifierBuffer(n)), Released(ClassifierFile(n))>>

\* _FC_CompareFilesInternal: the switch on Config->Mode
_FC_CompareFilesInternal ==
    /\ pc = "dispatch"
    /\ IF Mode = FC_MODE_TEXT_ASCII \/ Mode = FC_MODE_TEXT_UNICODE
       THEN pc' = "text" /\ Opens' = Opens /\ Ledger' = Ledger
       ELSE IF Mode = FC_MODE_BINARY
       THEN pc' = "binary" /\ Opens' = Opens /\ Ledger' = Ledger
       ELSE /\ pc' = IF IsTextFile(1, File1) /\ IsTextFile(2, File2)
                     THEN "text" ELSE "binary"
            /\ Opens' = Opens \o <<1, 2>>
            /\ Ledger' = ClassifierLedger(ClassifierLedger(Ledger, 1), 2)
    /\ Branch' = pc'
    /\ UNCHANGED <<cli, Frame, File1, File2, Mode, Flags, ResyncLines, Lines1, Lines2,
                   Ctx, Lcs, Filtered, Callbacks, Mapped, Result, Args, Env>>

\* _FC_ReadFileContents of file n: the buffer is returned (Ok) or NULL, *Result,
\* and the ledger.  An empty file sets *Result = FC_OK before its one-byte
\* buffer is allocated; ReadFile is called on a non-empty file only.
_FC_ReadFileContents(l, n, File) ==
    IF ~Openable(n)
    THEN [Ok |-> FALSE, Result |-> FC_ERROR_IO, Ledger |-> l]
    ELSE IF Fails(FileSize(n))
    THEN [Ok |-> FALSE, Result |-> FC_ERROR_IO,
          Ledger |-> l \o <<Acquired(FileHandle(n)), Failed(FileSize(n)),
                            Released(FileHandle(n))>>]
    ELSE IF Fails(Buffer(n))
    THEN [Ok |-> FALSE,
          Result |-> IF Len(File) = 0 THEN FC_OK ELSE FC_ERROR_MEMORY,
          Ledger |-> l \o <<Acquired(FileHandle(n)), Failed(Buffer(n)),
                            Released(FileHandle(n))>>]
    ELSE IF Len(File) > 0 /\ Fails(FileRead(n))
    THEN [Ok |-> FALSE, Result |-> FC_ERROR_IO,
          Ledger |-> l \o <<Acquired(FileHandle(n)), Acquired(Buffer(n)),
                            Failed(FileRead(n)), Released(Buffer(n)),
                            Nulled(Buffer(n)), Released(FileHandle(n))>>]
    ELSE [Ok |-> TRUE, Result |-> FC_OK,
          Ledger |-> l \o <<Acquired(FileHandle(n)), Acquired(Buffer(n)),
                            Released(FileHandle(n))>>]

\* the allocations _FC_HashLine makes for a line: the lowercase copy of
\* _FC_StringToLowerUnicode, freed after hashing; its failure is modelled on the
\* first line of a file
HashLineEvents(n, k, lower) ==
    IF ~lower THEN <<>>
    ELSE IF k = 1 /\ Fails(LowerString(n)) THEN <<Failed(LowerString(n))>>
    ELSE <<Acquired(LowerString(n)), Released(LowerString(n))>>

\* the allocations of the first k rounds of the loop of _FC_ParseLines: the
\* text of the line, the copy made for its hash, and at the first append the
\* array of the line buffer
RECURSIVE ParseEvents(_, _, _)
ParseEvents(n, k, lower) ==
    IF k = 0 THEN <<>>
    ELSE ParseEvents(n, k - 1, lower)
         \o <<Acquired(LineText(n, k))>> \o HashLineEvents(n, k, lower)
         \o (IF k = 1 THEN <<Acquired(LineBuffer(n))>> ELSE <<>>)

\* _FC_ParseLines of buffer n with the allocations that can fail in this model:
\* the first one made for the text of line k (LineText(n, k)), after which the
\* lines before k stay in the line buffer for the caller to free; the array of
\* the line buffer at its first append (LineBuffer(n)); and the lowercase copy
\* _FC_HashLine asks for on the first line (LowerString(n)), whose failure gives
\* the line the hash 0 and lets the parse go on
ParseLinesOf(l, n, File) ==
    LET lines == _FC_ParseLines(File, Mode, Flags)
        lower == HasFlag(Flags, FC_IGNORE_CASE) /\ Mode = FC_MODE_TEXT_UNICODE
        failed == {k \in 1..Len(lines) : Fails(LineText(n, k))}
    IN  IF failed # {}
        THEN LET k == CHOOSE k \in failed : TRUE
             IN  [Result |-> FC_ERROR_MEMORY, Lines |-> SubSeq(lines, 1, k - 1),
                  Ledger |-> l \o ParseEvents(n, k - 1, lower)
                              \o <<Failed(LineText(n, k))>>]
        ELSE IF lines = <<>>
        THEN [Result |-> FC_OK, Lines |-> <<>>, Ledger |-> l]
        ELSE IF Fails(LineBuffer(n))
        THEN [Result |-> FC_ERROR_MEMORY, Lines |-> <<>>,
              Ledger |-> l \o <<Acquired(LineText(n, 1))>>
                          \o HashLineEvents(n, 1, lower)
                          \o <<Failed(LineBuffer(n)), Released(LineText(n, 1))>>]
        ELSE [Result |-> FC_OK,
              Lines |-> IF lower /\ Fails(LowerString(n))
                        THEN [lines EXCEPT ![1].Hash = <<0, 0>>]
                        ELSE lines,
              Ledger |-> l \o ParseEvents(n, Len(lines), lower)]

\* _FC_CompareFilesText up to the call of _FC_FindLcs: _FC_ReadFileContents of
\* Path1, then of Path2, then _FC_ParseLines of both buffers
_FC_CompareFilesText ==
    /\ pc = "text"
    /\ LET r1 == _FC_ReadFileContents(Ledger, 1, File1)
           r2 == _FC_ReadFileContents(r1.Ledger, 2, File2)
           p1 == ParseLinesOf(r2.Ledger, 1, File1)
           p2 == ParseLinesOf(p1.Ledger, 2, File2)
       IN  IF ~r1.Ok
           THEN /\ Opens' = Opens \o <<1>>
                /\ Result' = r1.Result
                /\ pc' = "done"
                /\ UNCHANGED <<Lines1, Lines2>>
                /\ Ledger' = ApiCleanup(TextCleanup(r1.Ledger, <<>>, <<>>))
           ELSE IF ~r2.Ok
           THEN /\ Opens' = Opens \o <<1, 2>>
                /\ Result' = r2.Result
                /\ pc' = "done"
                /\ UNCHANGED <<Lines1, Lines2>>
                /\ Ledger' = ApiCleanup(TextCleanup(r2.Ledger, <<>>, <<>>))
           ELSE IF p1.Result # FC_OK
           THEN /\ Opens' = Opens \o <<1, 2>>
                /\ Result' = p1.Result
                /\ pc' = "done"
                /\ Lines1' = p1.Lines
                /\ Lines2' = Lines2
                /\ Ledger' = ApiCleanup(TextCleanup(p1.Ledger, p1.Lines, <<>>))
           ELSE IF p2.Result # FC_OK
           THEN /\ Opens' = Opens \o <<1, 2>>
                /\ Result' = p2.Result
                /\ pc' = "done"
                /\ Lines1' = p1.Lines
                /\ Lines2' = p2.Lines
                /\ Ledger' = ApiCleanup(TextCleanup(p2.Ledger, p1.Lines, p2.Lines))
           ELSE /\ Opens' = Opens \o <<1, 2>>
                /\ Lines1' = p1.Lines
                /\ Lines2' = p2.Lines
                /\ pc' = "findlcs"
                /\ Result' = Result
                /\ Ledger' = p2.Ledger
    /\ UNCHANGED <<cli, Frame, File1, File2, Mode, Flags, ResyncLines,
                   Ctx, Lcs, Filtered, Callbacks, Branch, Mapped, Args, Env>>

\* _FC_FindLcs: the early returns, the hash map, the match lists, the three
\* arrays of the context and the main loop.  _FC_HashMapCreate frees Buckets
\* itself when EntryPool is not allocated, and _FC_FindLcs then returns without
\* going through cleanup.
FindLcsMatch ==
    /\ pc = "findlcs"
    /\ IF CountA = 0 /\ CountB = 0
       THEN /\ Result' = FC_OK
            /\ pc' = "done"
            /\ Ctx' = Ctx
            /\ Ledger' = ApiCleanup(TextCleanup(Ledger, Lines1, Lines2))
       ELSE IF CountA = 0 \/ CountB = 0
       THEN /\ Result' = FC_DIFFERENT
            /\ pc' = "done"
            /\ Ctx' = Ctx
            /\ Ledger' = ApiCleanup(TextCleanup(Ledger, Lines1, Lines2))
       ELSE IF Fails(Buckets)
       THEN /\ Result' = FC_ERROR_MEMORY
            /\ pc' = "done"
            /\ Ctx' = Ctx
            /\ Ledger' = ApiCleanup(TextCleanup(Ledger \o <<Failed(Buckets)>>,
                                                Lines1, Lines2))
       ELSE IF Fails(EntryPool)
       THEN /\ Result' = FC_ERROR_MEMORY
            /\ pc' = "done"
            /\ Ctx' = Ctx
            /\ Ledger' = ApiCleanup(TextCleanup(
                            Ledger \o <<Acquired(Buckets), Failed(EntryPool),
                                        Released(Buckets)>>,
                            Lines1, Lines2))
       ELSE IF Fails(MatchPool)
       THEN /\ Result' = FC_ERROR_MEMORY
            /\ pc' = "done"
            /\ Ctx' = Ctx
            /\ Ledger' = ReturnFromLcs(Ledger \o <<Acquired(Buckets), Acquired(EntryPool),
                                                   Failed(MatchPool)>>)
       ELSE IF Fails(ThresholdsBlock) \/ Fails(PredecessorsABlock) \/ Fails(PredecessorsBBlock)
       THEN /\ Result' = FC_ERROR_MEMORY
            /\ pc' = "done"
            /\ Ctx' = Ctx
            /\ Ledger' = ReturnFromLcs(Ledger \o <<Acquired(Buckets), Acquired(EntryPool),
                                                   Acquired(MatchPool), Obtain(ThresholdsBlock),
                                                   Obtain(PredecessorsABlock),
                                                   Obtain(PredecessorsBBlock)>>)
       ELSE /\ Ctx' = LcsMainLoop(Lines1, Lines2)
            /\ pc' = IF Ctx'.LcsLength > 0 THEN "traceback" ELSE "filter"
            /\ Result' = Result
            /\ Ledger' = Ledger \o <<Acquired(Buckets), Acquired(EntryPool),
                                     Acquired(MatchPool), Acquired(ThresholdsBlock),
                                     Acquired(PredecessorsABlock), Acquired(PredecessorsBBlock)>>
    /\ UNCHANGED <<cli, Frame, File1, File2, Mode, Flags, ResyncLines, Lines1, Lines2,
                   Lcs, Filtered, Callbacks, Branch, Mapped,
                   Args, Env, Opens>>

\* _FC_FindLcs: if (LcsLength > 0) { ... traceback ... }.  The rows of
\* PredecessorsA / PredecessorsB the main loop never wrote hold whatever the heap
\* block held.
FindLcsTraceback ==
    /\ pc = "traceback"
    /\ IF Fails(LcsABlock) \/ Fails(LcsBBlock)
       THEN /\ Result' = FC_ERROR_MEMORY
            /\ pc' = "done"
            /\ Lcs' = Lcs
            /\ Ledger' = ReturnFromLcs(Ledger \o <<Obtain(LcsABlock), Obtain(LcsBBlock)>>)
       ELSE /\ \E heapA, heapB \in [(0..(CountA - 1)) \ Ctx.Written -> Garbage] :
                  Lcs' = Traceback(Ctx, CountA,
                                   Overlay(Ctx.PredecessorsA, Ctx.Written, heapA),
                                   Overlay(Ctx.PredecessorsB, Ctx.Written, heapB))
            /\ pc' = "filter"
            /\ Result' = Result
            /\ Ledger' = Ledger \o <<Acquired(LcsABlock), Acquired(LcsBBlock)>>
    /\ UNCHANGED <<cli, Frame, File1, File2, Mode, Flags, ResyncLines, Lines1, Lines2,
                   Ctx, Filtered, Callbacks, Branch, Mapped,
                   Args, Env, Opens>>

\* what _FC_FilterLcsForResync acquires and releases when it keeps kept pairs:
\* two arrays of LcsLength words when nothing is filtered, else the two buffers
\* that grow at the first run kept (freed again when the second one fails)
FilterLedger(l, LcsLength, resync, kept) ==
    IF LcsLength = 0 THEN l
    ELSE IF resync <= 1
    THEN l \o <<Obtain(FilteredLcsA), Obtain(FilteredLcsB)>>
    ELSE IF kept = 0 THEN l
    ELSE IF Fails(FilteredLcsA) THEN l \o <<Failed(FilteredLcsA)>>
    ELSE IF Fails(FilteredLcsB)
    THEN l \o <<Acquired(FilteredLcsA), Failed(FilteredLcsB),
                Released(FilteredLcsA), Nulled(FilteredLcsA)>>
    ELSE l \o <<Acquired(FilteredLcsA), Acquired(FilteredLcsB)>>

\* _FC_FindLcs: the identity check, the resync filter and the test of its result.
\* The slots of LcsA / LcsB the traceback never wrote hold whatever the heap
\* block held.
FindLcsFilter ==
    /\ pc = "filter"
    /\ IF Ctx.LcsLength = CountA /\ Ctx.LcsLength = CountB
       THEN /\ Result' = FC_OK
            /\ pc' = "done"
            /\ Filtered' = Filtered
            /\ Ledger' = ReturnFromLcs(Ledger)
       ELSE \E heapA, heapB \in [(0..(Ctx.LcsLength - 1)) \ Lcs.Written -> Garbage] :
            LET f == _FC_FilterLcsForResync(Overlay(Lcs.A, Lcs.Written, heapA),
                                            Overlay(Lcs.B, Lcs.Written, heapB),
                                            Ctx.LcsLength, ResyncLines)
                l == FilterLedger(Ledger, Ctx.LcsLength, ResyncLines, f.Length)
                failed == f.Length > 0 /\ (Fails(FilteredLcsA) \/ Fails(FilteredLcsB))
            IN  IF Ctx.LcsLength > 0 /\ (failed \/ (f.Length = 0 /\ f.IsNull))
                THEN /\ Result' = FC_ERROR_MEMORY
                     /\ pc' = "done"
                     /\ Filtered' = Filtered
                     /\ Ledger' = ReturnFromLcs(l)
                ELSE /\ Filtered' = f
                     /\ pc' = "process"
                     /\ Result' = Result
                     /\ Ledger' = l
    /\ UNCHANGED <<cli, Frame, File1, File2, Mode, Flags, ResyncLines, Lines1, Lines2,
                   Ctx, Lcs, Callbacks, Branch, Mapped,
                   Args, Env, Opens>>

\* _FC_FindLcs: Result = _FC_ProcessLcs(...), every block goes to the callback
FindLcsProcess ==
    /\ pc = "process"
    /\ LET r == _FC_ProcessLcs(CountA, CountB, Filtered.A, Filtered.B, Filtered.Length)
       IN  /\ Callbacks' = r.Blocks
           /\ Result' = r.Result
    /\ pc' = "done"
    /\ Ledger' = ReturnFromLcs(Ledger)
    /\ UNCHANGED <<cli, Frame, File1, File2, Mode, Flags, ResyncLines, Lines1, Lines2,
                   Ctx, Lcs, Filtered, Branch, Mapped,
                   Args, Env, Opens>>

\* _FC_CompareFilesBinary: both files are opened, then sized, mapped and scanned
_FC_CompareFilesBinary ==
    /\ pc = "binary"
    /\ Opens' = Opens \o <<1, 2>>
    /\ LET opened == Ledger
                      \o (IF Openable(1) THEN <<Acquired(FileHandle(1))>> ELSE <<>>)
                      \o (IF Openable(2) THEN <<Acquired(FileHandle(2))>> ELSE <<>>)
           mapped == opened \o <<Obtain(MapHandle(1)), Obtain(MapHandle(2))>>
           viewed == mapped \o <<Obtain(View(1)), Obtain(View(2))>>
       IN  IF ~Openable(1) \/ ~Openable(2)
           THEN /\ Callbacks' = Callbacks
                /\ Result' = FC_ERROR_IO
                /\ Mapped' = FALSE
                /\ Ledger' = ApiCleanup(BinaryCleanup(opened))
           ELSE IF Fails(FileSize(1)) \/ Fails(FileSize(2))
           THEN /\ Callbacks' = Callbacks
                /\ Result' = FC_ERROR_IO
                /\ Mapped' = FALSE
                /\ Ledger' = ApiCleanup(BinaryCleanup(
                                opened \o <<Failed(Env.Fail)>>))
           ELSE IF Len(File1) # Len(File2)
           THEN /\ Callbacks' = <<SizeBlock(Len(File1), Len(File2))>>
                /\ Result' = FC_DIFFERENT
                /\ Mapped' = FALSE
                /\ Ledger' = ApiCleanup(BinaryCleanup(opened))
           ELSE IF Len(File1) = 0
           THEN /\ Callbacks' = <<>>
                /\ Result' = FC_OK
                /\ Mapped' = FALSE
                /\ Ledger' = ApiCleanup(BinaryCleanup(opened))
           ELSE IF Fails(MapHandle(1)) \/ Fails(MapHandle(2))
           THEN /\ Callbacks' = Callbacks
                /\ Result' = FC_ERROR_IO
                /\ Mapped' = FALSE
                /\ Ledger' = ApiCleanup(BinaryCleanup(mapped))
           ELSE IF Fails(View(1)) \/ Fails(View(2))
           THEN /\ Callbacks' = Callbacks
                /\ Result' = FC_ERROR_IO
                /\ Mapped' = FALSE
                /\ Ledger' = ApiCleanup(BinaryCleanup(viewed))
           ELSE /\ Callbacks' = BinaryScan(File1, File2, 0)
                /\ Result' = IF Callbacks' # <<>> THEN FC_DIFFERENT ELSE FC_OK
                /\ Mapped' = TRUE
                /\ Ledger' = ApiCleanup(BinaryCleanup(viewed))
    /\ pc' = "done"
    /\ UNCHANGED <<cli, Frame, File1, File2, Mode, Flags, ResyncLines, Lines1, Lines2,
                   Ctx, Lcs, Filtered, Branch, Args, Env>>

----------------------------------------------------------------------------
(* The text comparison one loop round at a time.  Frame holds the locals of the
   loop under way; the line buffers, Ctx, Lcs, Filtered and Callbacks are built
   up round by round.  Every allocation succeeds here. *)

NoFrame == [loop |-> "none"]

FrameKeeps ==
    UNCHANGED <<cli, File1, File2, Mode, Flags, ResyncLines, Branch, Mapped, Args, Env>>

\* _FC_CompareFilesText: both calls of _FC_ReadFileContents
TextRead ==
    /\ pc = "text"
    /\ LET r1 == _FC_ReadFileContents(Ledger, 1, File1)
           r2 == _FC_ReadFileContents(r1.Ledger, 2, File2)
       IN  IF ~r1.Ok
           THEN /\ Opens' = Opens \o <<1>>
                /\ Result' = r1.Result
                /\ pc' = "done"
                /\ Frame' = Frame
                /\ Ledger' = ApiCleanup(TextCleanup(r1.Ledger, <<>>, <<>>))
           ELSE IF ~r2.Ok
           THEN /\ Opens' = Opens \o <<1, 2>>
                /\ Result' = r2.Result
                /\ pc' = "done"
                /\ Frame' = Frame
                /\ Ledger' = ApiCleanup(TextCleanup(r2.Ledger, <<>>, <<>>))
           ELSE /\ Opens' = Opens \o <<1, 2>>
                /\ Result' = Result
                /\ pc' = "parse"
                /\ Frame' = [loop |-> "lines", n |-> 1, Ptr |-> 0]
                /\ Ledger' = r2.Ledger
    /\ UNCHANGED <<Lines1, Lines2, Ctx, Lcs, Filtered, Callbacks>>
    /\ FrameKeeps

\* _FC_ParseLines: one round of while (Ptr <= End) on buffer Frame.n; when the
\* loop is left the second buffer is parsed, then _FC_FindLcs is called
ParseRound ==
    /\ pc = "parse"
    /\ LET bytes == IF Frame.n = 1 THEN File1 ELSE File2
           lines == IF Frame.n = 1 THEN Lines1 ELSE Lines2
           End == Len(bytes)
           Ptr == Frame.Ptr
           Newline == ScanToEol(bytes, Ptr)
           FinalText == NormalizeLine(SubSeq(bytes, Ptr + 1, Newline), Flags)
           line == [Text |-> FinalText, Length |-> Len(FinalText),
                    Hash |-> _FC_HashLine(FinalText, Mode, Flags)]
           break == Ptr = End /\ (End = 0 \/ IsEol(bytes[End]))
           discard == HasFlag(Flags, FC_IGNORE_WS) /\ Len(FinalText) = 0
           lines2 == IF break \/ discard THEN lines ELSE Append(lines, line)
           leave == Ptr > End \/ break \/ Newline >= End
       IN  /\ Lines1' = IF Frame.n = 1 THEN lines2 ELSE Lines1
           /\ Lines2' = IF Frame.n = 2 THEN lines2 ELSE Lines2
           /\ Ledger' = IF break \/ discard \/ Ptr > End THEN Ledger
                        ELSE Ledger \o <<Acquired(LineText(Frame.n, Len(lines2)))>>
                                    \o (IF lines = <<>>
                                        THEN <<Acquired(LineBuffer(Frame.n))>> ELSE <<>>)
           /\ IF ~leave
              THEN pc' = "parse" /\ Frame' = [Frame EXCEPT !.Ptr = SkipEol(bytes, Newline)]
              ELSE IF Frame.n = 1
              THEN pc' = "parse" /\ Frame' = [loop |-> "lines", n |-> 2, Ptr |-> 0]
              ELSE pc' = "lcs" /\ Frame' = NoFrame
    /\ UNCHANGED <<Ctx, Lcs, Filtered, Callbacks, Opens, Result>>
    /\ FrameKeeps

\* _FC_FindLcs up to its main loop: the tests of the counts, the hash map over
\* the lines of B, and the arrays as allocated
LcsStart ==
    /\ pc = "lcs"
    /\ IF CountA = 0 \/ CountB = 0
       THEN /\ Result' = IF CountA = 0 /\ CountB = 0 THEN FC_OK ELSE FC_DIFFERENT
            /\ pc' = "done"
            /\ UNCHANGED <<Ctx, Frame>>
            /\ Ledger' = ApiCleanup(TextCleanup(Ledger, Lines1, Lines2))
       ELSE /\ Ctx' = InitialCtx(CountA)
            /\ Frame' = [loop |-> "main", MapB |-> BuildMatchLists(Lines2, 0, <<>>),
                         i |-> 0]
            /\ pc' = "main"
            /\ Result' = Result
            /\ Ledger' = Ledger \o <<Acquired(Buckets), Acquired(EntryPool),
                                     Acquired(MatchPool), Acquired(ThresholdsBlock),
                                     Acquired(PredecessorsABlock), Acquired(PredecessorsBBlock)>>
    /\ UNCHANGED <<Lines1, Lines2, Lcs, Filtered, Callbacks, Opens>>
    /\ FrameKeeps

\* one round of for (i = 0; i < pBufferA->Count; ++i) up to the loop over the
\* matches of line i
MainLoopRound ==
    /\ pc = "main"
    /\ IF Frame.i >= CountA
       THEN /\ pc' = IF Ctx.LcsLength > 0 THEN "traceback" ELSE "filter"
            /\ Frame' = NoFrame
       ELSE LET hashA == Lines1[Frame.i + 1].Hash
            IN  IF hashA \in DOMAIN Frame.MapB
                THEN /\ pc' = "match"
                     /\ Frame' = [loop |-> "match", MapB |-> Frame.MapB, i |-> Frame.i,
                                  match |-> Frame.MapB[hashA]]
                ELSE /\ pc' = "main"
                     /\ Frame' = [Frame EXCEPT !.i = Frame.i + 1]
    /\ UNCHANGED <<Lines1, Lines2, Ctx, Lcs, Filtered, Callbacks, Opens, Result, Ledger>>
    /\ FrameKeeps

\* one round of for (match = entry->MatchHead; match != NULL; match = match->Next)
\* up to its binary search: k = 0, low = 1, high = LcsLength
MatchRound ==
    /\ pc = "match"
    /\ IF Frame.match = <<>>
       THEN /\ pc' = "main"
            /\ Frame' = [loop |-> "main", MapB |-> Frame.MapB, i |-> Frame.i + 1]
       ELSE /\ pc' = "search"
            /\ Frame' = [loop |-> "search", MapB |-> Frame.MapB, i |-> Frame.i,
                         match |-> Frame.match, low |-> 1, high |-> Ctx.LcsLength]
    /\ UNCHANGED <<Lines1, Lines2, Ctx, Lcs, Filtered, Callbacks, Opens, Result, Ledger>>
    /\ FrameKeeps

\* one round of while (low <= high); when it is left, k = low, the threshold
\* test and the move to the next match
BinarySearchRound ==
    /\ pc = "search"
    /\ LET IndexInB == Head(Frame.match)
           mid == Frame.low + (Frame.high - Frame.low) \div 2
           k == Frame.low
           i == Frame.i
       IN  IF Frame.low <= Frame.high
           THEN /\ pc' = "search"
                /\ Frame' = IF IndexInB > Ctx.Thresholds[mid]
                            THEN [Frame EXCEPT !.low = mid + 1]
                            ELSE [Frame EXCEPT !.high = mid - 1]
                /\ Ctx' = Ctx
           ELSE /\ pc' = "match"
                /\ Frame' = [loop |-> "match", MapB |-> Frame.MapB, i |-> i,
                             match |-> Tail(Frame.match)]
                /\ Ctx' = IF IndexInB < Ctx.Thresholds[k]
                          THEN [Thresholds |-> [Ctx.Thresholds EXCEPT ![k] = IndexInB],
                                PredecessorsA |-> [Ctx.PredecessorsA EXCEPT
                                                      ![i] = IF k > 1 THEN Ctx.Thresholds[k - 1]
                                                             ELSE SIZE_MAX],
                                PredecessorsB |-> [Ctx.PredecessorsB EXCEPT ![i] = IndexInB],
                                Written |-> Ctx.Written \cup {i},
                                LcsLength |-> IF k > Ctx.LcsLength THEN k ELSE Ctx.LcsLength]
                          ELSE Ctx
    /\ UNCHANGED <<Lines1, Lines2, Lcs, Filtered, Callbacks, Opens, Result, Ledger>>
    /\ FrameKeeps

\* The traceback: LcsA = HeapAlloc(...); LcsB = HeapAlloc(...);
\* currentB = Thresholds[LcsLength]; currentA = 0; and the start of the first
\* scan at i = Count - 1.  The frame holds PredecessorsA / PredecessorsB as the
\* heap block holds them (the rows never written with the content the block
\* happened to have), the index i of the outer loop, and scan, the size_t index
\* of the scan under way (i of the first scan, j of the inner one).
TracebackStart ==
    /\ pc = "traceback"
    /\ \E heapA, heapB \in [(0..(CountA - 1)) \ Ctx.Written -> Garbage] :
          Frame' = [loop |-> "traceback",
                    PredecessorsA |-> Overlay(Ctx.PredecessorsA, Ctx.Written, heapA),
                    PredecessorsB |-> Overlay(Ctx.PredecessorsB, Ctx.Written, heapB),
                    currentA |-> 0,
                    currentB |-> Ctx.Thresholds[Ctx.LcsLength],
                    i |-> Ctx.LcsLength,
                    scan |-> SizeDec(CountA)]
    /\ Lcs' = InitialLcs(Ctx.LcsLength)
    /\ pc' = "scan"
    /\ Ledger' = Ledger \o <<Acquired(LcsABlock), Acquired(LcsBBlock)>>
    /\ UNCHANGED <<Lines1, Lines2, Ctx, Filtered, Callbacks, Opens, Result>>
    /\ FrameKeeps

\* one round of for (i = Count - 1; i != (size_t)-1; --i)
\*                  if (PredecessorsB[i] == currentB) { currentA = i; break; }
TracebackScan ==
    /\ pc = "scan"
    /\ IF Frame.scan = SIZE_MAX
       THEN pc' = "trace" /\ Frame' = Frame
       ELSE IF Frame.PredecessorsB[Frame.scan] = Frame.currentB
       THEN pc' = "trace" /\ Frame' = [Frame EXCEPT !.currentA = Frame.scan]
       ELSE pc' = "scan" /\ Frame' = [Frame EXCEPT !.scan = SizeDec(Frame.scan)]
    /\ UNCHANGED <<Lines1, Lines2, Ctx, Lcs, Filtered, Callbacks, Opens, Result, Ledger>>
    /\ FrameKeeps

\* one round of for (i = LcsLength; i > 0; --i) up to its inner loop: the pair is
\* stored, currentB becomes PredecessorsA[currentA], and the inner scan starts at
\* j = currentA - 1 unless currentB is (size_t)-1
TracebackStore ==
    /\ pc = "trace"
    /\ IF Frame.i = 0
       THEN pc' = "filter" /\ Frame' = NoFrame /\ Lcs' = Lcs
       ELSE LET prevB == Frame.PredecessorsA[Frame.currentA]
            IN  /\ Lcs' = [A |-> [Lcs.A EXCEPT ![Frame.i - 1] = Frame.currentA],
                           B |-> [Lcs.B EXCEPT ![Frame.i - 1] = Frame.currentB],
                           Written |-> Lcs.Written \cup {Frame.i - 1}]
                /\ IF prevB = SIZE_MAX
                   THEN pc' = "filter" /\ Frame' = NoFrame
                   ELSE /\ pc' = "inner"
                        /\ Frame' = [Frame EXCEPT !.currentB = prevB,
                                                  !.scan = SizeDec(Frame.currentA)]
    /\ UNCHANGED <<Lines1, Lines2, Ctx, Filtered, Callbacks, Opens, Result, Ledger>>
    /\ FrameKeeps

\* one round of for (j = currentA - 1; j != (size_t)-1; --j)
\*                  if (PredecessorsB[j] == currentB) { currentA = j; break; }
\* and, when it is left, the --i of the outer loop
TracebackInnerScan ==
    /\ pc = "inner"
    /\ IF Frame.scan = SIZE_MAX
       THEN pc' = "trace" /\ Frame' = [Frame EXCEPT !.i = Frame.i - 1]
       ELSE IF Frame.PredecessorsB[Frame.scan] = Frame.currentB
       THEN pc' = "trace" /\ Frame' = [Frame EXCEPT !.currentA = Frame.scan,
                                                    !.i = Frame.i - 1]
       ELSE pc' = "inner" /\ Frame' = [Frame EXCEPT !.scan = SizeDec(Frame.scan)]
    /\ UNCHANGED <<Lines1, Lines2, Ctx, Lcs, Filtered, Callbacks, Opens, Result, Ledger>>
    /\ FrameKeeps

\* _FC_FindLcs: the identity check, then _FC_FilterLcsForResync up to its loop:
\* the copy when nothing is to be filtered, else two empty buffers and i = 0.
\* The frame holds LcsA / LcsB as the heap blocks hold them.
FilterStart ==
    /\ pc = "filter"
    /\ IF Ctx.LcsLength = CountA /\ Ctx.LcsLength = CountB
       THEN /\ Result' = FC_OK
            /\ pc' = "done"
            /\ UNCHANGED <<Filtered, Frame>>
            /\ Ledger' = ReturnFromLcs(Ledger)
       ELSE \E heapA, heapB \in [(0..(Ctx.LcsLength - 1)) \ Lcs.Written -> Garbage] :
            LET LcsA == Overlay(Lcs.A, Lcs.Written, heapA)
                LcsB == Overlay(Lcs.B, Lcs.Written, heapB)
            IN  IF Ctx.LcsLength = 0 \/ ResyncLines <= 1
                THEN /\ Filtered' = _FC_FilterLcsForResync(LcsA, LcsB, Ctx.LcsLength,
                                                           ResyncLines)
                     /\ pc' = "process"
                     /\ Frame' = Frame
                     /\ Result' = Result
                     /\ Ledger' = FilterLedger(Ledger, Ctx.LcsLength, ResyncLines,
                                               Ctx.LcsLength)
                ELSE /\ Frame' = [loop |-> "filter", LcsA |-> LcsA, LcsB |-> LcsB,
                                  i |-> 0, runEnd |-> 0, A |-> <<>>, B |-> <<>>]
                     /\ pc' = "runs"
                     /\ UNCHANGED <<Filtered, Result, Ledger>>
    /\ UNCHANGED <<Lines1, Lines2, Ctx, Lcs, Callbacks, Opens>>
    /\ FrameKeeps

\* one round of for (i = 0; i < LcsLength; ) up to its inner loop: runStart = i,
\* runEnd = i; when the loop is left the buffers go to the caller, which takes
\* an empty result without a block for an allocation failure
FilterRound ==
    /\ pc = "runs"
    /\ IF Frame.i >= Ctx.LcsLength
       THEN LET f == [A |-> Frame.A, B |-> Frame.B, Length |-> Len(Frame.A),
                      IsNull |-> Len(Frame.A) = 0]
                l == FilterLedger(Ledger, Ctx.LcsLength, ResyncLines, f.Length)
            IN  IF Ctx.LcsLength > 0 /\ f.Length = 0 /\ f.IsNull
                THEN /\ Result' = FC_ERROR_MEMORY
                     /\ pc' = "done"
                     /\ Filtered' = Filtered
                     /\ Frame' = NoFrame
                     /\ Ledger' = ReturnFromLcs(l)
                ELSE /\ Filtered' = f
                     /\ pc' = "process"
                     /\ Frame' = NoFrame
                     /\ Result' = Result
                     /\ Ledger' = l
       ELSE /\ pc' = "run"
            /\ Frame' = [Frame EXCEPT !.runEnd = Frame.i]
            /\ UNCHANGED <<Filtered, Result, Ledger>>
    /\ UNCHANGED <<Lines1, Lines2, Ctx, Lcs, Callbacks, Opens>>
    /\ FrameKeeps

\* one round of while (runEnd + 1 < LcsLength && LcsA[runEnd + 1] == LcsA[runEnd] + 1
\* && LcsB[runEnd + 1] == LcsB[runEnd] + 1) runEnd++; when it is left the run is
\* kept if it has ResyncLines pairs, and i = runEnd + 1
RunRound ==
    /\ pc = "run"
    /\ LET runEnd == Frame.runEnd
           runStart == Frame.i
           runLength == (runEnd - runStart) + 1
       IN  IF /\ runEnd + 1 < Ctx.LcsLength
              /\ Frame.LcsA[runEnd + 1] = SizeInc(Frame.LcsA[runEnd])
              /\ Frame.LcsB[runEnd + 1] = SizeInc(Frame.LcsB[runEnd])
           THEN pc' = "run" /\ Frame' = [Frame EXCEPT !.runEnd = runEnd + 1]
           ELSE /\ pc' = "runs"
                /\ Frame' = IF runLength >= ResyncLines
                            THEN [Frame EXCEPT
                                    !.A = Frame.A \o [n \in 1..runLength |->
                                                        Frame.LcsA[runStart + n - 1]],
                                    !.B = Frame.B \o [n \in 1..runLength |->
                                                        Frame.LcsB[runStart + n - 1]],
                                    !.i = runEnd + 1]
                            ELSE [Frame EXCEPT !.i = runEnd + 1]
    /\ UNCHANGED <<Lines1, Lines2, Ctx, Lcs, Filtered, Callbacks, Opens, Result, Ledger>>
    /\ FrameKeeps

\* _FC_ProcessLcs up to its loop: the identity test on the filtered length, then
\* IndexA = 0, IndexB = 0, i = 0
ProcessStart ==
    /\ pc = "process"
    /\ IF Filtered.Length = CountA /\ Filtered.Length = CountB
       THEN /\ Result' = FC_OK
            /\ pc' = "done"
            /\ Frame' = Frame
            /\ Ledger' = ReturnFromLcs(Ledger)
       ELSE /\ Frame' = [loop |-> "emit", i |-> 0, IndexA |-> 0, IndexB |-> 0]
            /\ pc' = "emit"
            /\ UNCHANGED <<Result, Ledger>>
    /\ UNCHANGED <<Lines1, Lines2, Ctx, Lcs, Filtered, Callbacks, Opens>>
    /\ FrameKeeps

\* one round of for (i = 0; i <= LcsLength; ++i): a block goes to the callback
\* when lines were added or deleted before pair i; when the loop is left
\* _FC_ProcessLcs returns FC_DIFFERENT and _FC_FindLcs goes to its cleanup
EmitRound ==
    /\ pc = "emit"
    /\ IF Frame.i > Filtered.Length
       THEN /\ Result' = FC_DIFFERENT
            /\ pc' = "done"
            /\ Frame' = NoFrame
            /\ Callbacks' = Callbacks
            /\ Ledger' = ReturnFromLcs(Ledger)
       ELSE LET i == Frame.i
                LcsLineA == IF i < Filtered.Length THEN Filtered.A[i + 1] ELSE CountA
                LcsLineB == IF i < Filtered.Length THEN Filtered.B[i + 1] ELSE CountB
                hasAdds == Frame.IndexB < LcsLineB
                hasDeletes == Frame.IndexA < LcsLineA
                block == [Type |-> IF hasAdds /\ hasDeletes THEN FC_DIFF_TYPE_CHANGE
                                   ELSE IF hasAdds THEN FC_DIFF_TYPE_ADD
                                   ELSE FC_DIFF_TYPE_DELETE,
                          StartA |-> Frame.IndexA, EndA |-> LcsLineA,
                          StartB |-> Frame.IndexB, EndB |-> LcsLineB]
            IN  /\ Callbacks' = IF hasAdds \/ hasDeletes
                                THEN Append(Callbacks, block) ELSE Callbacks
                /\ Frame' = [loop |-> "emit", i |-> i + 1,
                             IndexA |-> SizeInc(LcsLineA), IndexB |-> SizeInc(LcsLineB)]
                /\ pc' = "emit"
                /\ UNCHANGED <<Result, Ledger>>
    /\ UNCHANGED <<Lines1, Lines2, Ctx, Lcs, Filtered, Opens>>
    /\ FrameKeeps

----------------------------------------------------------------------------
(* fc.exe: wmain.  Argv is argv without argv[0]; an argument is a sequence *)
(* of characters, and the character past its end is the terminator NUL.     *)

NUL == ""

\* ExitCode while wmain has not returned; <<code>> once it has
NoExit == <<>>
\* UINT_MAX is 4294967295 in the build; the model keeps the largest integer its
\* checker holds, and no numeric argument of the pool comes near either
UINT_MAX == 2147483647

Digits == <<"0", "1", "2", "3", "4", "5", "6", "7", "8", "9">>

\* iswdigit(c)
iswdigit(c) == \E d \in 1..10 : Digits[d] = c

OptionLower == <<"b", "c", "l", "n", "t", "u", "w", "x">>
OptionUpper == <<"B", "C", "L", "N", "T", "U", "W", "X">>

\* towupper(c)
towupper(c) ==
    IF \E i \in 1..Len(OptionLower) : OptionLower[i] = c
    THEN OptionUpper[CHOOSE i \in 1..Len(OptionLower) : OptionLower[i] = c]
    ELSE c

\* Option[i] of a zero-terminated string, i counted from 0
CharAt(Option, i) == IF i < Len(Option) THEN Option[i + 1] ELSE NUL

\* wcstoul(OptionString, &EndPtr, 10): the value of the leading digits and the
\* position where they end
RECURSIVE wcstoul(_, _, _)
wcstoul(OptionString, pos, value) ==
    IF iswdigit(CharAt(OptionString, pos))
    THEN wcstoul(OptionString, pos + 1,
                 value * 10 + (CHOOSE d \in 1..10 :
                                  Digits[d] = CharAt(OptionString, pos)) - 1)
    ELSE [EndPtr |-> pos, ParsedValue |-> value]

\* ParseNumericOption(OptionString, &Value, MinValue, MaxValue)
ParseNumericOption(OptionString, MinValue, MaxValue) ==
    LET r == wcstoul(OptionString, 0, 0)
    IN  IF \/ CharAt(OptionString, r.EndPtr) # NUL
           \/ r.ParsedValue < MinValue
           \/ r.ParsedValue > MaxValue
        THEN [Ok |-> FALSE, Value |-> 0]
        ELSE [Ok |-> TRUE, Value |-> r.ParsedValue]

\* g_OptionMap without its sentinel row
g_OptionMap ==
    << [OptionChar |-> "B", FlagToSet |-> 0, ModeToSet |-> FC_MODE_BINARY],
       [OptionChar |-> "C", FlagToSet |-> FC_IGNORE_CASE, ModeToSet |-> 0],
       [OptionChar |-> "W", FlagToSet |-> FC_IGNORE_WS, ModeToSet |-> 0],
       [OptionChar |-> "L", FlagToSet |-> 0, ModeToSet |-> FC_MODE_TEXT_ASCII],
       [OptionChar |-> "N", FlagToSet |-> FC_SHOW_LINE_NUMS, ModeToSet |-> 0],
       [OptionChar |-> "T", FlagToSet |-> FC_RAW_TABS, ModeToSet |-> 0],
       [OptionChar |-> "U", FlagToSet |-> 0, ModeToSet |-> FC_MODE_TEXT_UNICODE] >>

\* Config.Flags |= FlagToSet, with the flags of the table being single bits
OrFlag(flags, bit) == IF HasFlag(flags, bit) THEN flags ELSE flags + bit

argc == Len(Argv) + 1

\* wmain up to the option loop: the argument count and the defaults
wmain ==
    /\ pc = "wmain"
    /\ IF argc < 3
       THEN /\ ExitCode' = <<-1>>
            /\ pc' = "exit"
            /\ UNCHANGED <<Mode, Flags, ResyncLines, ArgIndex>>
       ELSE /\ Mode' = FC_MODE_AUTO
            /\ Flags' = 0
            /\ ResyncLines' = 2
            /\ ArgIndex' = 1
            /\ pc' = "options"
            /\ ExitCode' = ExitCode
    /\ UNCHANGED <<Frame, Ledger, Argv, File1, File2, Lines1, Lines2, Ctx, Lcs, Filtered,
                   Callbacks, Branch, Mapped, Args, Env, Opens, Result>>

\* one turn of for (; ArgIndex < argc - 2; ++ArgIndex)
wmainOption ==
    /\ pc = "options"
    /\ ArgIndex < argc - 2
    /\ LET Option == Argv[ArgIndex]
           Invalid == /\ ExitCode' = <<-1>>
                      /\ pc' = "exit"
                      /\ UNCHANGED <<Mode, Flags, ResyncLines, ArgIndex>>
           Continue == /\ ArgIndex' = ArgIndex + 1
                       /\ pc' = "options"
                       /\ ExitCode' = ExitCode
       IN  IF CharAt(Option, 0) \notin {"/", "-"}
           THEN Invalid
           ELSE IF iswdigit(CharAt(Option, 1))
           THEN LET r == ParseNumericOption(SubSeq(Option, 2, Len(Option)), 1, UINT_MAX)
                IN  IF r.Ok
                    THEN ResyncLines' = r.Value /\ UNCHANGED <<Mode, Flags>> /\ Continue
                    ELSE Invalid
           ELSE IF /\ CharAt(Option, 1) = "L" /\ CharAt(Option, 2) = "B"
                   /\ iswdigit(CharAt(Option, 3))
           THEN \* Config.BufferLines, which the library never reads
                IF ParseNumericOption(SubSeq(Option, 4, Len(Option)), 1, UINT_MAX).Ok
                THEN UNCHANGED <<Mode, Flags, ResyncLines>> /\ Continue
                ELSE Invalid
           ELSE LET OptionChar == towupper(CharAt(Option, 1))
                    rows == {i \in 1..Len(g_OptionMap) :
                                g_OptionMap[i].OptionChar = OptionChar}
                IN  IF rows = {}
                    THEN Invalid
                    ELSE LET row == g_OptionMap[CHOOSE i \in rows : TRUE]
                         IN  /\ Flags' = IF row.FlagToSet # 0
                                         THEN OrFlag(Flags, row.FlagToSet) ELSE Flags
                             /\ Mode' = IF row.ModeToSet # 0
                                        THEN row.ModeToSet ELSE Mode
                             /\ ResyncLines' = ResyncLines
                             /\ Continue
    /\ UNCHANGED <<Frame, Ledger, Argv, File1, File2, Lines1, Lines2, Ctx, Lcs, Filtered,
                   Callbacks, Branch, Mapped, Args, Env, Opens, Result>>

\* after the loop: the callback is chosen and FC_CompareFilesW is called on
\* argv[argc - 2] and argv[argc - 1]
wmainCompare ==
    /\ pc = "options"
    /\ ArgIndex >= argc - 2
    /\ Args' = [Path1 |-> [Type |-> "RtlPathTypeDriveAbsolute", Root |-> "drive",
                           Dir |-> <<"d">>, Last |-> Argv[argc - 2],
                           ValidUtf8 |-> TRUE],
                Path2 |-> [Type |-> "RtlPathTypeDriveAbsolute", Root |-> "drive",
                           Dir |-> <<"d">>, Last |-> Argv[argc - 1],
                           ValidUtf8 |-> TRUE],
                Config |-> TRUE, DiffCallback |-> TRUE]
    /\ pc' = "wide"
    /\ UNCHANGED <<cli, Frame, Ledger, File1, File2, Mode, Flags, ResyncLines, Lines1, Lines2,
                   Ctx, Lcs, Filtered, Callbacks, Branch, Mapped, Env, Opens, Result>>

\* switch (Result): the exit code
wmainReturn ==
    /\ pc = "done"
    /\ ExitCode = NoExit
    /\ ExitCode' = IF Result = FC_OK THEN <<0>>
                   ELSE IF Result = FC_DIFFERENT THEN <<1>>
                   ELSE IF Result \in {FC_ERROR_IO, FC_ERROR_MEMORY} THEN <<2>>
                   ELSE <<-1>>
    /\ pc' = "exit"
    /\ UNCHANGED <<Frame, Ledger, Argv, ArgIndex, File1, File2, Mode, Flags, ResyncLines,
                   Lines1, Lines2, Ctx, Lcs, Filtered, Callbacks, Branch, Mapped,
                   Args, Env, Opens, Result>>

----------------------------------------------------------------------------
(* Specifications *)

SeqsUpTo(S, n) == UNION {[1..k -> S] : k \in 0..n}

\* the state of a call before anything ran
\* a plain path: drive-absolute, one directory, an ordinary file name
PlainPath(name) ==
    [Type |-> "RtlPathTypeDriveAbsolute", Root |-> "drive", Dir |-> <<"d">>,
     Last |-> name, ValidUtf8 |-> TRUE]

ValidArgs ==
    [Path1 |-> PlainPath(<<"a", ".", "t", "x", "t">>),
     Path2 |-> PlainPath(<<"b", ".", "t", "x", "t">>),
     Config |-> TRUE, DiffCallback |-> TRUE]

\* every local of the call at its initial value
CallLocals ==
    /\ Lines1 = <<>>
    /\ Lines2 = <<>>
    /\ Ctx = NoCtx
    /\ Lcs = NoLcs
    /\ Filtered = NoFiltered
    /\ Callbacks = <<>>
    /\ Branch = "none"
    /\ Mapped = FALSE
    /\ Opens = <<>>
    /\ Result = FC_OK
    /\ Ledger = <<>>
    /\ Frame = NoFrame

\* a call of the library made by a program other than fc.exe
Locals ==
    /\ CallLocals
    /\ Argv = <<>>
    /\ ArgIndex = 0
    /\ ExitCode = NoExit

\* a call with valid arguments on two files that open, at the dispatcher
Fresh ==
    /\ pc = "dispatch"
    /\ Args = ValidArgs
    /\ Env = [Openable |-> <<TRUE, TRUE>>, LegacyDosDevices |-> TRUE,
              Fail |-> NoFailure]
    /\ Locals

\* Spec: every pair of short files over a small alphabet, every mode (99 is out of
\* range), every flag combination
TextBytes == {LF, 65, 97}
Modes == {FC_MODE_TEXT_ASCII, FC_MODE_TEXT_UNICODE, FC_MODE_BINARY, FC_MODE_AUTO, 99}

Init ==
    /\ File1 \in SeqsUpTo(TextBytes, MaxFileLen)
    /\ File2 \in SeqsUpTo(TextBytes, MaxFileLen)
    /\ Mode \in Modes
    /\ Flags \in 0..15
    /\ ResyncLines \in 0..MaxResync
    /\ Fresh

Next ==
    \/ _FC_CompareFilesInternal
    \/ _FC_CompareFilesText
    \/ FindLcsMatch
    \/ FindLcsTraceback
    \/ FindLcsFilter
    \/ FindLcsProcess
    \/ _FC_CompareFilesBinary

Spec == Init /\ [][Next]_vars

\* SpecLines: text mode, no flags, files made of up to MaxLines lines drawn from a
\* pool of line texts ("Aa" and "BB" have the same fingerprint), one LF after each
LinePool == {<<65, 97>>, <<66, 66>>, <<65>>}

RECURSIVE JoinLines(_)
JoinLines(ls) == IF ls = <<>> THEN <<>> ELSE Head(ls) \o <<LF>> \o JoinLines(Tail(ls))

InitLines ==
    /\ \E la, lb \in SeqsUpTo(LinePool, MaxLines) :
          /\ File1 = JoinLines(la)
          /\ File2 = JoinLines(lb)
    /\ Mode \in {FC_MODE_TEXT_ASCII, FC_MODE_TEXT_UNICODE}
    /\ Flags = 0
    /\ ResyncLines \in 0..MaxResync
    /\ Fresh

NextText ==
    \/ _FC_CompareFilesInternal
    \/ _FC_CompareFilesText
    \/ FindLcsMatch
    \/ FindLcsTraceback
    \/ FindLcsFilter
    \/ FindLcsProcess

SpecLines == InitLines /\ [][NextText]_vars

\* SpecBinary: binary mode, every pair of files of up to MaxBinLen bytes
BinBytes == {0, 127, 255}

InitBinary ==
    /\ File1 \in SeqsUpTo(BinBytes, MaxBinLen)
    /\ File2 \in SeqsUpTo(BinBytes, MaxBinLen)
    /\ Mode = FC_MODE_BINARY
    /\ Flags = 0
    /\ ResyncLines \in 0..MaxResync
    /\ Fresh

NextBinary ==
    \/ _FC_CompareFilesInternal
    \/ _FC_CompareFilesBinary

SpecBinary == InitBinary /\ [][NextBinary]_vars

\* SpecScenario: the files of the worked examples, compared in text mode
L1 == <<76, 49>>
L2 == <<76, 50>>
L3 == <<76, 51>>
L4 == <<76, 52>>
L5 == <<76, 53>>
LX == <<88>>
LY == <<89>>

FileL1toL5 == JoinLines(<<L1, L2, L3, L4, L5>>)
FileL1XL3YL5 == JoinLines(<<L1, LX, L3, LY, L5>>)
FileAbcDef == JoinLines(<<<<97, 98, 99>>, <<100, 101, 102>>>>)
FileAbcDEF == JoinLines(<<<<97, 98, 99>>, <<68, 69, 70>>>>)
FileATabB == JoinLines(<<<<65, TAB, 66>>>>)
FileASpacesB == JoinLines(<<<<65, SPACE, SPACE, SPACE, SPACE, 66>>>>)

ScenarioFiles ==
    {FileL1toL5, FileL1XL3YL5, FileAbcDef, FileAbcDEF, FileATabB, FileASpacesB}

InitScenario ==
    /\ File1 \in ScenarioFiles
    /\ File2 \in ScenarioFiles
    /\ Mode \in {FC_MODE_TEXT_ASCII, FC_MODE_TEXT_UNICODE}
    /\ Flags \in {0, FC_IGNORE_CASE, FC_IGNORE_WS, FC_RAW_TABS}
    /\ ResyncLines \in 0..MaxResync
    /\ Fresh

SpecScenario == InitScenario /\ [][NextText]_vars

\* SpecApi: the two public entry points on every pair of paths of a pool, with
\* null arguments, files that do not open, and both ways the OS treats DOS
\* device names
PathPool ==
    {[Type |-> t, Root |-> "drive", Dir |-> <<"d">>,
      Last |-> <<"a", ".", "t", "x", "t">>, ValidUtf8 |-> TRUE] :
        t \in {"RtlPathTypeUnknown", "RtlPathTypeUncAbsolute", "RtlPathTypeDriveAbsolute",
               "RtlPathTypeDriveRelative", "RtlPathTypeRooted", "RtlPathTypeRelative",
               "RtlPathTypeLocalDevice", "RtlPathTypeRootLocalDevice"}}
    \cup {[Type |-> "RtlPathTypeDriveAbsolute", Root |-> r, Dir |-> <<"d">>,
           Last |-> <<"a", ".", "t", "x", "t">>, ValidUtf8 |-> TRUE] :
             r \in {"device", "pipe"}}
    \cup {[Type |-> "RtlPathTypeDriveAbsolute", Root |-> "drive", Dir |-> <<"d">>,
           Last |-> <<"a", ".", "t", "x", "t">>, ValidUtf8 |-> FALSE]}
    \cup {[Type |-> td[1], Root |-> "drive", Dir |-> td[2], Last |-> l,
           ValidUtf8 |-> TRUE] :
             td \in {<<"RtlPathTypeDriveAbsolute", <<"d">>>>,
                     <<"RtlPathTypeRelative", <<>>>>},
             l \in {<<>>, <<"n", "u", "l">>, <<"N", "U", "L">>,
                    <<"C", "o", "n", ".", "t", "x", "t">>,
                    <<"L", "P", "T", "1", ".", "l", "o", "g">>,
                    <<"C", "O", "M", "1">>, <<"C", "O", "M", "0">>,
                    <<"n", "u", "l", "l">>, <<"c", "o", "n", "t", ".", "t", "x", "t">>}}

InitApi ==
    /\ pc \in {"utf8", "wide"}
    /\ \E p1, p2 \in PathPool \cup {NULL} :
          \E c, cb \in BOOLEAN :
             Args = [Path1 |-> p1, Path2 |-> p2, Config |-> c, DiffCallback |-> cb]
    /\ \E o1, o2, legacy \in BOOLEAN :
          Env = [Openable |-> <<o1, o2>>, LegacyDosDevices |-> legacy,
                 Fail |-> NoFailure]
    /\ File1 = <<65, LF>>
    /\ File2 \in {<<65, LF>>, <<97, LF>>}
    /\ Mode \in {FC_MODE_TEXT_ASCII, FC_MODE_BINARY, FC_MODE_AUTO}
    /\ Flags = 0
    /\ ResyncLines = 0
    /\ Locals

NextApi ==
    \/ FC_CompareFilesUtf8
    \/ FC_CompareFilesW
    \/ Next

SpecApi == InitApi /\ [][NextApi]_vars

\* SpecAuto: the automatic mode (and an out-of-range mode) on files chosen around
\* the classifier's cases: empty, the three byte-order marks (whole, partial,
\* misplaced, and followed by zero bytes), a zero byte, the 90 % ratio on either
\* side, and two files longer than the BUFFER_SIZE bytes the classifier reads,
\* whose first BUFFER_SIZE bytes are 3686 printable ones and 410 others (just
\* under 90 %) while the whole file is above 90 %
Repeat(b, n) == [i \in 1..n |-> b]

AutoFiles ==
    { <<>>, <<65>>, <<1>>, <<0>>, <<TAB, LF, CR>>, <<127>>,
      <<239, 187, 191>>, <<239, 187, 191, 0, 1>>, <<239, 187>>,
      <<255, 254, 65, 0>>, <<254, 255, 0, 65>>, <<255>>, <<65, 255, 254>>,
      Repeat(65, 9) \o <<1>>, Repeat(65, 8) \o <<1, 1>>, Repeat(65, 9) \o <<0>>,
      <<127>> \o Repeat(65, 9) }

FileLong1 == Repeat(1, 410) \o Repeat(65, 3686) \o Repeat(65, 1000)
FileLong2 == Repeat(65, 3686) \o Repeat(1, 410) \o Repeat(65, 2000)

InitAuto ==
    /\ pc = "dispatch"
    /\ Args = ValidArgs
    /\ \E o1, o2 \in BOOLEAN :
          Env = [Openable |-> <<o1, o2>>, LegacyDosDevices |-> TRUE,
                 Fail |-> NoFailure]
    /\ File1 \in AutoFiles \cup {FileLong1}
    /\ File2 \in AutoFiles \cup {FileLong2}
    /\ Mode \in {FC_MODE_AUTO, 99}
    /\ Flags = 0
    /\ ResyncLines = 0
    /\ Locals

SpecAuto == InitAuto /\ [][Next]_vars

\* SpecBom: a file made of the UTF-8 byte-order mark and a short text against a
\* file with the text alone, in either order, in text-unicode and automatic mode
Utf8Bom == <<239, 187, 191>>

InitBom ==
    /\ \E T \in SeqsUpTo(TextBytes, MaxFileLen) :
          \/ File1 = Utf8Bom \o T /\ File2 = T
          \/ File1 = T /\ File2 = Utf8Bom \o T
    /\ Mode \in {FC_MODE_TEXT_UNICODE, FC_MODE_AUTO}
    /\ Flags \in 0..15
    /\ ResyncLines = 0
    /\ Fresh

SpecBom == InitBom /\ [][Next]_vars

\* SpecParse: text-ASCII mode on every pair of buffers of up to MaxParseLen bytes
\* over LF, CR and one letter (without FC_IGNORE_CASE the text-unicode mode runs
\* the same code)
ParseBytes == {LF, CR, 65}

InitParse ==
    /\ File1 \in SeqsUpTo(ParseBytes, MaxParseLen)
    /\ File2 \in SeqsUpTo(ParseBytes, MaxParseLen)
    /\ Mode = FC_MODE_TEXT_ASCII
    /\ Flags = 0
    /\ ResyncLines = 0
    /\ Fresh

SpecParse == InitParse /\ [][NextText]_vars

\* SpecTabs: text modes with FC_RAW_TABS set or not, on pairs of files drawn from
\* short texts over tab, a letter and LF, the test file "A\tB\n", and the same
\* texts with four spaces written in place of each tab
TabBytes == {TAB, 65, LF}

RECURSIVE FourSpacesForTabs(_)
FourSpacesForTabs(b) ==
    IF b = <<>> THEN <<>>
    ELSE (IF Head(b) = TAB THEN <<SPACE, SPACE, SPACE, SPACE>> ELSE <<Head(b)>>)
            \o FourSpacesForTabs(Tail(b))

TabTexts == SeqsUpTo(TabBytes, MaxTabLen) \cup {FileATabB}

TabFiles == TabTexts \cup {FourSpacesForTabs(T) : T \in TabTexts}

InitTabs ==
    /\ File1 \in TabFiles
    /\ File2 \in TabFiles
    /\ Mode \in {FC_MODE_TEXT_ASCII, FC_MODE_TEXT_UNICODE}
    /\ Flags \in {0, FC_RAW_TABS}
    /\ ResyncLines = 0
    /\ Fresh

SpecTabs == InitTabs /\ [][NextText]_vars

\* SpecWs: text modes with FC_IGNORE_WS, with and without FC_RAW_TABS, on every
\* pair of files of up to MaxWsLen bytes over tab, space, a letter and LF
WsBytes == {TAB, SPACE, 65, LF}

InitWs ==
    /\ File1 \in SeqsUpTo(WsBytes, MaxWsLen)
    /\ File2 \in SeqsUpTo(WsBytes, MaxWsLen)
    /\ Mode \in {FC_MODE_TEXT_ASCII, FC_MODE_TEXT_UNICODE}
    /\ Flags \in {FC_IGNORE_WS, FC_IGNORE_WS + FC_RAW_TABS}
    /\ ResyncLines = 0
    /\ Fresh

SpecWs == InitWs /\ [][NextText]_vars

\* SpecFingerprints: text-ASCII mode, no flags; File1 has up to MaxLines lines of
\* the pool, File2 is File1 with some lines exchanged for a line of the same
\* fingerprint, or with its last line replaced or removed, or with a line added
\* at its end
SameHashTexts(t) == {u \in LinePool : _FC_ComputeHash(u, 0) = _FC_ComputeHash(t, 0)}

NearLines(la) ==
    {lb \in [1..Len(la) -> LinePool] : \A k \in 1..Len(la) : lb[k] \in SameHashTexts(la[k])}
    \cup {[la EXCEPT ![Len(la)] = t] : t \in IF la = <<>> THEN {} ELSE LinePool}
    \cup {SubSeq(la, 1, Len(la) - 1)}
    \cup {Append(la, t) : t \in LinePool}

InitFingerprints ==
    /\ \E la \in SeqsUpTo(LinePool, MaxLines) : \E lb \in NearLines(la) :
          /\ File1 = JoinLines(la)
          /\ File2 = JoinLines(lb)
    /\ Mode = FC_MODE_TEXT_ASCII
    /\ Flags = 0
    /\ ResyncLines \in 0..MaxResync
    /\ Fresh

SpecFingerprints == InitFingerprints /\ [][NextText]_vars

\* SpecCli: fc.exe run on every command line of up to MaxOptions arguments from
\* a pool (the seven options in either case and with either prefix, the numeric
\* and the /LB options, and arguments wmain refuses) followed by the two file
\* names, and on command lines too short to name two files
OptionPool ==
    { <<"/", "B">>, <<"/", "L">>, <<"/", "U">>, <<"/", "C">>, <<"/", "W">>,
      <<"/", "N">>, <<"/", "T">>, <<"-", "b">>, <<"/", "u">>, <<"-", "l">>,
      <<"/", "3">>, <<"/", "0">>, <<"/", "L", "B", "9">>, <<"/", "X">>, <<"B">> }

FileNames == <<<<"a">>, <<"b">>>>

InitCli ==
    /\ pc = "wmain"
    /\ Argv \in {opts \o FileNames : opts \in SeqsUpTo(OptionPool, MaxOptions)}
                \cup {<<>>, <<FileNames[1]>>}
    /\ ArgIndex = 0
    /\ ExitCode = NoExit
    /\ Mode = 0
    /\ Flags = 0
    /\ ResyncLines = 0
    /\ Args = [Path1 |-> NULL, Path2 |-> NULL, Config |-> FALSE, DiffCallback |-> FALSE]
    /\ Env = [Openable |-> <<TRUE, TRUE>>, LegacyDosDevices |-> TRUE,
              Fail |-> NoFailure]
    /\ File1 = <<65, LF>>
    /\ File2 \in {<<65, LF>>, <<97, LF>>}
    /\ CallLocals

NextCli ==
    \/ wmain
    \/ wmainOption
    \/ wmainCompare
    \/ FC_CompareFilesW
    \/ Next
    \/ wmainReturn

SpecCli == InitCli /\ [][NextCli]_vars

\* SpecFail: both public entry points, every mode, on pairs of short files (empty,
\* one line, a repeated line, and three lines), with files that do not open and
\* with at most one failing call per run: each heap allocation of the call, the
\* size query, ReadFile, CreateFileMappingW and MapViewOfFile on either file
AllocationSites ==
    {WidePath(n) : n \in 1..2} \cup {CanonicalPath(n) : n \in 1..2}
    \cup {ClassifierBuffer(n) : n \in 1..2} \cup {Buffer(n) : n \in 1..2}
    \cup {LineText(n, k) : n \in 1..2, k \in 1..MaxLines}
    \cup {LineBuffer(n) : n \in 1..2}
    \cup {LowerString(n) : n \in 1..2}
    \cup {Buckets, EntryPool, MatchPool, ThresholdsBlock, PredecessorsABlock,
          PredecessorsBBlock, LcsABlock, LcsBBlock, FilteredLcsA, FilteredLcsB}

SystemCallSites ==
    {FileSize(n) : n \in 1..2} \cup {FileRead(n) : n \in 1..2}
    \cup {MapHandle(n) : n \in 1..2} \cup {View(n) : n \in 1..2}

FailFiles ==
    {<<>>, <<65, LF>>, <<65, LF, 65, LF>>, <<65, LF, 65, LF, 97, LF>>}

InitFail ==
    /\ pc \in {"utf8", "wide"}
    /\ \E p2 \in {PlainPath(<<"b", ".", "t", "x", "t">>), PlainPath(<<"n", "u", "l">>)} :
          Args = [ValidArgs EXCEPT !.Path2 = p2]
    /\ \E o \in {<<TRUE, TRUE>>, <<TRUE, FALSE>>, <<FALSE, TRUE>>} :
       \E site \in AllocationSites \cup SystemCallSites \cup {NoFailure} :
          Env = [Openable |-> o, LegacyDosDevices |-> TRUE, Fail |-> site]
    /\ File1 \in FailFiles
    /\ File2 \in FailFiles
    /\ Mode \in {FC_MODE_TEXT_ASCII, FC_MODE_TEXT_UNICODE, FC_MODE_BINARY, FC_MODE_AUTO}
    /\ Flags \in {0, FC_IGNORE_CASE}
    /\ ResyncLines \in {0, MaxResync}
    /\ Locals

SpecFail == InitFail /\ [][NextApi]_vars

\* SpecLive: a call on two files with the text comparison followed one loop
\* round at a time, and every step of the single thread eventually taken.  The
\* files are empty, of one line, with no line in common, equal, the pairs on
\* which the traceback reads rows it never wrote, a line without a terminator,
\* and a terminator without a line.
LiveFiles ==
    {<<>>, JoinLines(<<LX>>), JoinLines(<<LY>>), JoinLines(<<LX, LX>>),
     JoinLines(<<LX, LY>>), JoinLines(<<LY, LX, LY>>), JoinLines(<<LX, LY, LX>>),
     LX, <<CR, LF>>}

InitLive ==
    /\ File1 \in LiveFiles
    /\ File2 \in LiveFiles
    /\ Mode \in {FC_MODE_TEXT_ASCII, FC_MODE_TEXT_UNICODE, FC_MODE_BINARY}
    /\ Flags = 0
    /\ ResyncLines \in {0, MaxResync}
    /\ Fresh

NextLive ==
    \/ _FC_CompareFilesInternal
    \/ TextRead
    \/ ParseRound
    \/ LcsStart
    \/ MainLoopRound
    \/ MatchRound
    \/ BinarySearchRound
    \/ TracebackStart
    \/ TracebackScan
    \/ TracebackStore
    \/ TracebackInnerScan
    \/ FilterStart
    \/ FilterRound
    \/ RunRound
    \/ ProcessStart
    \/ EmitRound
    \/ _FC_CompareFilesBinary

SpecLive == InitLive /\ [][NextLive]_vars /\ WF_vars(NextLive)

----------------------------------------------------------------------------
(* Properties *)

\* the call has returned
Done == pc = "done"

\* the texts and the hashes of a parsed line sequence
TextsOf(lines) == [n \in 1..Len(lines) |-> lines[n].Text]
HashesOf(lines) == [n \in 1..Len(lines) |-> lines[n].Hash]

\* the indices of the callbacks
Blocks == 1..Len(Callbacks)

\* C1: two files with byte-identical content compare identical and no callback
\* is invoked, whatever the mode (the four defined ones or an out-of-range
\* value), the flags and the resync threshold.
C1_IdenticalContent ==
    (Done /\ File1 = File2) => (Result = FC_OK /\ Callbacks = <<>>)

\* C1 witness: a text comparison of two identical files of at least one line
\* ran the LCS to a full match and returned.
C1_Witness ==
    /\ Done
    /\ File1 = File2
    /\ Branch = "text"
    /\ CountA > 0
    /\ Ctx.LcsLength = CountA
    /\ Result = FC_OK

\* C10: in binary mode with files of equal size n there is exactly one callback
\* per offset at which the bytes differ, in ascending offset order, carrying
\* the offset in StartA, the byte of A in EndA and the byte of B in EndB; the
\* scan goes on after a mismatch; the result is different iff a mismatch was
\* reported; with n = 0 the result is identical, nothing is reported and
\* nothing is mapped.
C10_BinaryEqualSize ==
    (Done /\ Branch = "binary" /\ Mode = FC_MODE_BINARY /\ Len(File1) = Len(File2)) =>
        LET n == Len(File1)
            Differ == {i \in 0..(n - 1) : File1[i + 1] # File2[i + 1]}
        IN  /\ Len(Callbacks) = Cardinality(Differ)
            /\ \A k \in Blocks :
                  /\ Callbacks[k].StartA \in Differ
                  /\ Callbacks[k].EndA = File1[Callbacks[k].StartA + 1]
                  /\ Callbacks[k].EndB = File2[Callbacks[k].StartA + 1]
            /\ \A k \in Blocks :
                  k + 1 \in Blocks => Callbacks[k].StartA < Callbacks[k + 1].StartA
            /\ Result = (IF Differ # {} THEN FC_DIFFERENT ELSE FC_OK)
            /\ (n = 0 => (Result = FC_OK /\ Callbacks = <<>> /\ ~Mapped))

\* C10 witness: a binary comparison of equal-sized files reported a mismatch,
\* passed over an equal byte and reported a later mismatch.
C10_Witness ==
    /\ Done
    /\ Branch = "binary"
    /\ Len(File1) = Len(File2)
    /\ Len(Callbacks) = 2
    /\ Callbacks[1].StartA = 0
    /\ Callbacks[2].StartA = 2
    /\ File1[2] = File2[2]

\* the reference length of a longest common subsequence of two sequences
RECURSIVE LcsLen(_, _)
LcsLen(s, t) ==
    IF s = <<>> \/ t = <<>> THEN 0
    ELSE IF Head(s) = Head(t) THEN 1 + LcsLen(Tail(s), Tail(t))
    ELSE LET l == LcsLen(Tail(s), t)
             r == LcsLen(s, Tail(t))
         IN  IF l >= r THEN l ELSE r

\* the lines of A (of B) that no callback's range covers
UncoveredA == {i \in 0..(CountA - 1) :
                 ~\E k \in Blocks : Callbacks[k].StartA <= i /\ i < Callbacks[k].EndA}
UncoveredB == {i \in 0..(CountB - 1) :
                 ~\E k \in Blocks : Callbacks[k].StartB <= i /\ i < Callbacks[k].EndB}

\* two half-open ranges share no line
Disjoint(s1, e1, s2, e2) == e1 <= s1 \/ e2 <= s2 \/ e1 <= s2 \/ e2 <= s1

\* C2: in the text modes with no flags set, two files whose line sequences
\* differ in the number of lines or in the bytes of some line are never
\* returned as identical.
C2_DifferentLinesAreDifferent ==
    (Done /\ Branch = "text" /\ Flags = 0 /\ TextsOf(Lines1) # TextsOf(Lines2))
        => Result # FC_OK

\* C3: when exactly one of the two line sequences is empty, the result is
\* different and there is exactly one callback: a delete of [0, |A|) when B is
\* empty, an add of [0, |B|) when A is empty.
C3_OneSideEmpty ==
    (Done /\ Branch = "text" /\ (CountA = 0) # (CountB = 0)) =>
        /\ Result = FC_DIFFERENT
        /\ Len(Callbacks) = 1
        /\ Callbacks[1] = IF CountB = 0
                          THEN [Type |-> FC_DIFF_TYPE_DELETE, StartA |-> 0,
                                EndA |-> CountA, StartB |-> 0, EndB |-> 0]
                          ELSE [Type |-> FC_DIFF_TYPE_ADD, StartA |-> 0,
                                EndA |-> 0, StartB |-> 0, EndB |-> CountB]

\* C4: every block a text comparison passes to the callback has
\* StartA <= EndA <= |A| and StartB <= EndB <= |B|; an add has StartA = EndA,
\* a delete has StartB = EndB, a change has both ranges non-empty.
C4_BlockRanges ==
    (Done /\ Branch = "text") =>
        \A k \in Blocks :
            LET b == Callbacks[k]
            IN  /\ b.StartA <= b.EndA /\ b.EndA <= CountA
                /\ b.StartB <= b.EndB /\ b.EndB <= CountB
                /\ (b.Type = FC_DIFF_TYPE_ADD => b.StartA = b.EndA)
                /\ (b.Type = FC_DIFF_TYPE_DELETE => b.StartB = b.EndB)
                /\ (b.Type = FC_DIFF_TYPE_CHANGE =>
                        (b.StartA < b.EndA /\ b.StartB < b.EndB))

\* C5: the callbacks of a text comparison come in strictly increasing order of
\* StartA and of StartB, and their ranges are pairwise disjoint in A and in B.
C5_BlocksOrdered ==
    (Done /\ Branch = "text") =>
        \A k, m \in Blocks :
            k < m =>
                /\ Callbacks[k].StartA < Callbacks[m].StartA
                /\ Callbacks[k].StartB < Callbacks[m].StartB
                /\ Disjoint(Callbacks[k].StartA, Callbacks[k].EndA,
                            Callbacks[m].StartA, Callbacks[m].EndA)
                /\ Disjoint(Callbacks[k].StartB, Callbacks[k].EndB,
                            Callbacks[m].StartB, Callbacks[m].EndB)

\* C6: with a resync threshold of 0 or 1 and two line sequences that are not
\* identical, the lines of A plus the lines of B that no block covers number
\* exactly twice the length of a longest common subsequence of the two hash
\* sequences.
C6_MinimalDiff ==
    (Done /\ Branch = "text" /\ ResyncLines <= 1
          /\ HashesOf(Lines1) # HashesOf(Lines2)) =>
        Cardinality(UncoveredA) + Cardinality(UncoveredB)
            = 2 * LcsLen(HashesOf(Lines1), HashesOf(Lines2))

\* C7: in text-ASCII mode with a resync threshold of 2, comparing
\* (L1, L2, L3, L4, L5) with (L1, X, L3, Y, L5) returns different with exactly
\* one callback, a change covering [1, 4) of A and [1, 4) of B.
C7_ResyncScenario ==
    (Done /\ Mode = FC_MODE_TEXT_ASCII /\ ResyncLines = 2
          /\ File1 = FileL1toL5 /\ File2 = FileL1XL3YL5) =>
        /\ Result = FC_DIFFERENT
        /\ Callbacks = <<[Type |-> FC_DIFF_TYPE_CHANGE, StartA |-> 1, EndA |-> 4,
                          StartB |-> 1, EndB |-> 4]>>

\* the maximal runs <<first, last>> of consecutive pairs in the LCS the
\* traceback produced
LcsRuns ==
    LET L == Ctx.LcsLength
        Consecutive(s) == /\ Lcs.A[s + 1] = Lcs.A[s] + 1
                          /\ Lcs.B[s + 1] = Lcs.B[s] + 1
    IN  {run \in (0..(L - 1)) \X (0..(L - 1)) :
            /\ run[1] <= run[2]
            /\ \A s \in run[1]..(run[2] - 1) : Consecutive(s)
            /\ (run[1] > 0 => ~Consecutive(run[1] - 1))
            /\ (run[2] < L - 1 => ~Consecutive(run[2]))}

\* C8: with a resync threshold r > 1 and two line sequences that are not
\* identical, the matched lines between two consecutive blocks number at
\* least r, and every run of the computed LCS shorter than r lies inside an
\* emitted block.
C8_ResyncStretches ==
    (Done /\ Branch = "text" /\ ResyncLines > 1
          /\ HashesOf(Lines1) # HashesOf(Lines2)
          /\ CountA > 0 /\ CountB > 0
          /\ Lcs.Written = 0..(Ctx.LcsLength - 1)) =>
        /\ \A k \in Blocks :
              k + 1 \in Blocks =>
                  /\ Callbacks[k + 1].StartA - Callbacks[k].EndA >= ResyncLines
                  /\ Callbacks[k + 1].StartB - Callbacks[k].EndB >= ResyncLines
        /\ \A run \in LcsRuns :
              (run[2] - run[1]) + 1 < ResyncLines =>
                  \E k \in Blocks :
                      /\ Callbacks[k].StartA <= Lcs.A[run[1]]
                      /\ Lcs.A[run[2]] < Callbacks[k].EndA
                      /\ Callbacks[k].StartB <= Lcs.B[run[1]]
                      /\ Lcs.B[run[2]] < Callbacks[k].EndB

\* C9: a text comparison in which no allocation fails returns identical or
\* different, never memory-error.
C9_NoSpuriousMemoryError ==
    (Done /\ Branch = "text") => Result \in {FC_OK, FC_DIFFERENT}

\* C11: in binary mode with files of different sizes the callback is invoked
\* exactly once, with a size-mismatch block whose StartA is the size of A and
\* whose StartB is the size of B; no byte is reported, even when bytes of the
\* common prefix differ; the result is different.
C11_BinarySizeMismatch ==
    (Done /\ Branch = "binary" /\ Len(File1) # Len(File2)) =>
        /\ Result = FC_DIFFERENT
        /\ Len(Callbacks) = 1
        /\ Callbacks[1].Type = FC_DIFF_TYPE_SIZE
        /\ Callbacks[1].StartA = Len(File1)
        /\ Callbacks[1].StartB = Len(File2)

\* C11 witness: a binary comparison of files of different sizes whose first
\* bytes differ has returned.
C11_Witness ==
    /\ Done
    /\ Branch = "binary"
    /\ Len(File1) > 0
    /\ Len(File2) > Len(File1)
    /\ File1[1] # File2[1]
    /\ Len(Callbacks) = 1

\* the last component of a path is, as a whole and whatever its case, one of
\* the reserved device names
ReservedName(p) ==
    p # NULL /\ \E dev \in g_ReservedDevices : EqualNoCase(p.Last, dev)

\* a path the canonicalizer is to refuse: unknown type, local-device or
\* root-local-device namespace, device or pipe prefix, reserved name
RefusedPath(p) ==
    /\ p # NULL
    /\ \/ p.Type \in {"RtlPathTypeUnknown", "RtlPathTypeLocalDevice",
                       "RtlPathTypeRootLocalDevice"}
       \/ p.Root \in {"device", "pipe"}
       \/ ReservedName(p)

InvalidArgs ==
    \/ Args.Path1 = NULL \/ Args.Path2 = NULL
    \/ ~Args.Config \/ ~Args.DiffCallback
    \/ RefusedPath(Args.Path1) \/ RefusedPath(Args.Path2)

WithoutExtension(name) ==
    LET Dots == {i \in 1..Len(name) : name[i] = "."}
    IN  IF Dots = {} THEN name
        ELSE SubSeq(name, 1, (CHOOSE i \in Dots : \A j \in Dots : j <= i) - 1)

ReservedStem(p) ==
    p # NULL /\ \E dev \in g_ReservedDevices : EqualNoCase(WithoutExtension(p.Last), dev)

\* C13 as claimed: a call with a path whose last component, without its
\* extension and whatever its case, is a reserved device name returns
\* invalid-param.
C13_ReservedStemRejected ==
    (Done /\ (ReservedStem(Args.Path1) \/ ReservedStem(Args.Path2)))
        => Result = FC_ERROR_INVALID_PARAM

\* C13 amended: a call with a path whose whole last component, whatever its
\* case, is a reserved device name returns invalid-param; one whose last
\* component is a reserved name followed by an extension returns
\* invalid-param where the OS takes such a name for the device.
C13_ReservedNameRejected ==
    /\ (Done /\ (ReservedName(Args.Path1) \/ ReservedName(Args.Path2)))
            => Result = FC_ERROR_INVALID_PARAM
    /\ (Done /\ Env.LegacyDosDevices
              /\ (ReservedStem(Args.Path1) \/ ReservedStem(Args.Path2)))
            => Result = FC_ERROR_INVALID_PARAM

\* C13 witness: a call whose first path is plain and whose second path ends in
\* a lower-case reserved name inside a directory has returned invalid-param.
C13_Witness ==
    /\ Done
    /\ Args.Config /\ Args.DiffCallback
    /\ Args.Path1 # NULL /\ ~RefusedPath(Args.Path1) /\ ~ReservedStem(Args.Path1)
    /\ Args.Path1.ValidUtf8 /\ Args.Path1.Last # <<>>
    /\ Args.Path2 # NULL
    /\ Args.Path2.Last = <<"n", "u", "l">>
    /\ Args.Path2.Dir # <<>>
    /\ ~Env.LegacyDosDevices
    /\ Result = FC_ERROR_INVALID_PARAM

\* a file classifies as text: it opens, the first min(size, 4096) bytes are not
\* empty, and they start with a byte-order mark or hold no zero byte and at least
\* nine printable bytes in ten
Scanned(File) == SubSeq(File, 1, IF Len(File) < 4096 THEN Len(File) ELSE 4096)

StartsWith(s, prefix) ==
    Len(s) >= Len(prefix) /\ SubSeq(s, 1, Len(prefix)) = prefix

PrintableCount(s) ==
    Cardinality({i \in DOMAIN s :
                    s[i] \in (32..126) \cup {9, 10, 13}})

ClassifiesAsText(n, File) ==
    LET head == Scanned(File) IN
    /\ Env.Openable[n]
    /\ head # <<>>
    /\ \/ StartsWith(head, <<239, 187, 191>>)
       \/ StartsWith(head, <<255, 254>>)
       \/ StartsWith(head, <<254, 255>>)
       \/ /\ \A i \in DOMAIN head : head[i] # 0
          /\ 10 * PrintableCount(head) >= 9 * Len(head)

AutoMode == Mode \notin {FC_MODE_TEXT_ASCII, FC_MODE_TEXT_UNICODE, FC_MODE_BINARY}

\* C14: in automatic mode, and for an out-of-range mode value, the comparison
\* takes the text branch exactly when both files classify as text, and the
\* binary branch for every other combination (empty and unopenable files
\* included).
C14_AutoClassification ==
    (AutoMode /\ Branch # "none") =>
        Branch = IF ClassifiesAsText(1, File1) /\ ClassifiesAsText(2, File2)
                 THEN "text" ELSE "binary"

\* C14 witness: a file with exactly nine printable bytes in ten and a file that
\* starts with a byte-order mark and holds a zero byte were compared as text
C14_Witness ==
    /\ AutoMode
    /\ Done
    /\ Branch = "text"
    /\ Len(File1) = 10
    /\ PrintableCount(File1) = 9
    /\ StartsWith(File2, <<239, 187, 191>>)
    /\ \E i \in DOMAIN File2 : File2[i] = 0

\* one file is the UTF-8 byte-order mark followed by the other file
BomPair == File1 = <<239, 187, 191>> \o File2 \/ File2 = <<239, 187, 191>> \o File1

\* C15: a file made of a UTF-8 byte-order mark followed by a text compares
\* identical to the file holding the text alone, in automatic and in
\* text-unicode mode, and no extracted line holds a byte of the mark.
C15_BomEquivalence ==
    (Done /\ BomPair /\ Mode \in {FC_MODE_AUTO, FC_MODE_TEXT_UNICODE}) =>
        /\ Result = FC_OK
        /\ Callbacks = <<>>
        /\ \A n \in DOMAIN Lines1 : \A k \in DOMAIN Lines1[n].Text :
                Lines1[n].Text[k] \notin {239, 187, 191}
        /\ \A n \in DOMAIN Lines2 : \A k \in DOMAIN Lines2[n].Text :
                Lines2[n].Text[k] \notin {239, 187, 191}

\* the lines of a buffer as the line boundary rule has them: the maximal runs of
\* bytes that are neither CR nor LF, in order
IsTerminator(c) == c \in {10, 13}

RunStarts(b) ==
    {i \in DOMAIN b : ~IsTerminator(b[i]) /\ (i = 1 \/ IsTerminator(b[i - 1]))}

RunEndFrom(b, i) ==
    CHOOSE j \in i..Len(b) :
        /\ \A k \in i..j : ~IsTerminator(b[k])
        /\ (j = Len(b) \/ IsTerminator(b[j + 1]))

MaximalRuns(b) ==
    [n \in 1..Cardinality(RunStarts(b)) |->
        LET start == CHOOSE i \in RunStarts(b) :
                        Cardinality({j \in RunStarts(b) : j < i}) = n - 1
        IN  SubSeq(b, start, RunEndFrom(b, start))]

\* the terminator bytes before the first line
LeadingTerminators(b) ==
    SubSeq(b, 1, CHOOSE k \in 0..Len(b) :
                    /\ \A i \in 1..k : IsTerminator(b[i])
                    /\ (k = Len(b) \/ ~IsTerminator(b[k + 1])))

\* two buffers that differ only in the terminator runs between two lines and
\* after the last line
SameUpToTerminators(b1, b2) ==
    /\ MaximalRuns(b1) = MaximalRuns(b2)
    /\ LeadingTerminators(b1) = LeadingTerminators(b2)

Parsed == Branch = "text" /\ pc \notin {"dispatch", "text"}

CountIn(b, c) == Cardinality({i \in DOMAIN b : b[i] = c})

CountInLines(lines, c) ==
    Cardinality(UNION {{<<n, k>> : k \in {j \in DOMAIN lines[n].Text :
                                            lines[n].Text[j] = c}} :
                       n \in DOMAIN lines})

\* two buffers that differ only by a tab here and four spaces there
SameUpToTabs(b1, b2) == FourSpacesForTabs(b1) = FourSpacesForTabs(b2)

\* C17: without FC_RAW_TABS every tab becomes exactly four spaces whatever its
\* column, so files that differ only by tab versus four spaces get equal lines
\* and compare identical; with FC_RAW_TABS tabs are kept, and "A<tab>B" against
\* "A    B" compares different with one change block [0,1) x [0,1).
C17_TabExpansion ==
    (Parsed /\ ~HasFlag(Flags, FC_IGNORE_WS)) =>
        IF ~HasFlag(Flags, FC_RAW_TABS)
        THEN /\ CountInLines(Lines1, TAB) = 0
             /\ CountInLines(Lines2, TAB) = 0
             /\ CountInLines(Lines1, SPACE)
                    = CountIn(File1, SPACE) + 4 * CountIn(File1, TAB)
             /\ CountInLines(Lines2, SPACE)
                    = CountIn(File2, SPACE) + 4 * CountIn(File2, TAB)
             /\ SameUpToTabs(File1, File2) =>
                    /\ Lines1 = Lines2
                    /\ Done => (Result = FC_OK /\ Callbacks = <<>>)
        ELSE /\ CountInLines(Lines1, TAB) = CountIn(File1, TAB)
             /\ CountInLines(Lines2, TAB) = CountIn(File2, TAB)
             /\ (Done /\ File1 = <<65, 9, 66, 10>>
                      /\ File2 = <<65, 32, 32, 32, 32, 66, 10>>) =>
                    /\ Result = FC_DIFFERENT
                    /\ Callbacks = <<[Type |-> FC_DIFF_TYPE_CHANGE,
                                      StartA |-> 0, EndA |-> 1,
                                      StartB |-> 0, EndB |-> 1]>>

\* C17 witness: a tab in column 1 against four spaces, compared identical
\* without FC_RAW_TABS
C17_Witness ==
    /\ Done
    /\ Flags = 0
    /\ File1 = <<65, 9, 66, 10>>
    /\ File2 = <<65, 32, 32, 32, 32, 66, 10>>
    /\ Result = FC_OK

\* a buffer without its space and tab bytes
IsBlank(c) == c \in {32, 9}

WithoutBlanks(b) == SelectSeq(b, LAMBDA c : ~IsBlank(c))

\* C18: with FC_IGNORE_WS (FC_RAW_TABS set or not) the extracted lines depend
\* only on the file without its spaces and tabs, a line left empty by the
\* stripping is not a line, files equal up to spaces and tabs compare
\* identical, and a file of spaces, tabs and terminators only has no line and
\* compares identical to an empty file.
C18_IgnoreWhitespace ==
    (Parsed /\ HasFlag(Flags, FC_IGNORE_WS)) =>
        /\ TextsOf(Lines1) = MaximalRuns(WithoutBlanks(File1))
        /\ TextsOf(Lines2) = MaximalRuns(WithoutBlanks(File2))
        /\ \A n \in DOMAIN Lines1 : \A k \in DOMAIN Lines2 :
                Lines1[n].Text = Lines2[k].Text => Lines1[n] = Lines2[k]
        /\ WithoutBlanks(File1) = WithoutBlanks(File2) =>
                /\ Lines1 = Lines2
                /\ Done => (Result = FC_OK /\ Callbacks = <<>>)
        /\ (Done /\ File2 = <<>>
                  /\ \A i \in DOMAIN File1 :
                        IsBlank(File1[i]) \/ IsTerminator(File1[i])) =>
                (Lines1 = <<>> /\ Result = FC_OK /\ Callbacks = <<>>)

\* C18 witness: a file of a tab, a space and a line terminator compared
\* identical to the empty file with FC_IGNORE_WS and FC_RAW_TABS
C18_Witness ==
    /\ Done
    /\ Branch = "text"
    /\ Flags = FC_IGNORE_WS + FC_RAW_TABS
    /\ File1 = <<9, 32, 10>>
    /\ File2 = <<>>
    /\ Result = FC_OK

\* a byte with an ASCII capital letter replaced by its small letter
FoldByte(c) == IF c \in 65..90 THEN c + 32 ELSE c

Folded(b) == [i \in DOMAIN b |-> FoldByte(b[i])]

\* two buffers that differ only in the case of ASCII letters
SameUpToCase(b1, b2) == Folded(b1) = Folded(b2)

\* C19: with FC_IGNORE_CASE in text-ASCII mode two lines that differ only in
\* the case of ASCII letters have the same fingerprint, and two files that
\* differ only in the case of ASCII letters compare identical with no callback.
C19_IgnoreCaseAscii ==
    (Parsed /\ Mode = FC_MODE_TEXT_ASCII /\ HasFlag(Flags, FC_IGNORE_CASE)) =>
        /\ \A n \in DOMAIN Lines1 : \A k \in DOMAIN Lines2 :
                SameUpToCase(Lines1[n].Text, Lines2[k].Text)
                    => Lines1[n].Hash = Lines2[k].Hash
        /\ SameUpToCase(File1, File2) =>
                /\ HashesOf(Lines1) = HashesOf(Lines2)
                /\ Done => (Result = FC_OK /\ Callbacks = <<>>)

\* C19 witness: "A", LF against "a", LF compared identical with FC_IGNORE_CASE
\* in text-ASCII mode
C19_Witness ==
    /\ Done
    /\ Mode = FC_MODE_TEXT_ASCII
    /\ Flags = FC_IGNORE_CASE
    /\ File1 = <<65, 10>>
    /\ File2 = <<97, 10>>
    /\ Lines1 # Lines2
    /\ Result = FC_OK

\* the values the comparison of the two line sequences can return, in the order
\* given and with the files exchanged
ResultsAB == FindLcsResults(Lines1, Lines2, ResyncLines)
ResultsBA == FindLcsResults(Lines2, Lines1, ResyncLines)

\* C20: the outcome class is symmetric: the comparison of A with B can return
\* identical exactly when that of B with A can, and can return different
\* exactly when that of B with A can.
C20_OutcomeSymmetric ==
    Parsed =>
        /\ Done => Result \in ResultsAB
        /\ FC_OK \in ResultsAB <=> FC_OK \in ResultsBA
        /\ FC_DIFFERENT \in ResultsAB <=> FC_DIFFERENT \in ResultsBA

\* C27: without FC_IGNORE_WS the lines extracted from a buffer are its maximal
\* non-empty runs of bytes other than CR and LF, as many lines as runs, so a
\* buffer that begins with CR/LF bytes yields no empty line and compares
\* identical to the same buffer without them (tabs are absent from the buffers
\* of SpecParse, so the texts are the runs themselves).
C27_LinesAreMaximalRuns ==
    (Parsed /\ ~HasFlag(Flags, FC_IGNORE_WS)) =>
        /\ TextsOf(Lines1) = MaximalRuns(File1)
        /\ TextsOf(Lines2) = MaximalRuns(File2)
        /\ (Done /\ File1 = LeadingTerminators(File1) \o File2) =>
              Result = FC_OK

\* C24: a text-mode comparison returns identical exactly when the two line
\* sequences have the same length and equal fingerprints position by position:
\* the LCS length the main loop computes equals both line counts iff the
\* fingerprint sequences are equal, with repeated fingerprints and for every
\* resync threshold.  The last conjunct runs the main loop on the lines of
\* File1 against every line sequence of the pool.
C24_IdenticalIffSameFingerprints ==
    /\ (Done /\ Branch = "text") =>
          (Result = FC_OK <=> HashesOf(Lines1) = HashesOf(Lines2))
    /\ (Branch = "text" /\ pc \in {"traceback", "filter", "process"}) =>
          ((Ctx.LcsLength = CountA /\ Ctx.LcsLength = CountB)
              <=> HashesOf(Lines1) = HashesOf(Lines2))
    /\ (Branch = "text" /\ pc = "findlcs" /\ CountA > 0) =>
          \A lb \in SeqsUpTo(LinePool, MaxLines) \ {<<>>} :
              LET LinesB == _FC_ParseLines(JoinLines(lb), Mode, Flags)
                  length == LcsMainLoop(Lines1, LinesB).LcsLength
              IN  (length = CountA /\ length = Len(LinesB))
                      <=> HashesOf(Lines1) = HashesOf(LinesB)

\* C24 witness: two files of three lines with a repeated fingerprint and
\* different texts, equal fingerprint by fingerprint, compared as identical
\* with a resync threshold of two
C24_Witness ==
    /\ Done
    /\ Branch = "text"
    /\ ResyncLines = 2
    /\ CountA = 3
    /\ Lines1[1].Hash = Lines1[3].Hash
    /\ TextsOf(Lines1) # TextsOf(Lines2)
    /\ HashesOf(Lines1) = HashesOf(Lines2)
    /\ Ctx.LcsLength = 3
    /\ Result = FC_OK

\* the traceback has run: LcsA and LcsB hold its output
Traced == Branch = "text" /\ pc \in {"filter", "process"} /\ Ctx.LcsLength > 0

\* slot s of LcsA / LcsB holds a pair the traceback wrote, inside both files
InRange(s) ==
    /\ s \in Lcs.Written
    /\ Lcs.A[s] < CountA
    /\ Lcs.B[s] < CountB

\* C25: for two non-empty line sequences the LcsLength pairs (LcsA[i], LcsB[i])
\* the traceback produces are in range, strictly increasing in both components,
\* and each pairs two lines of equal fingerprint.
C25_TracebackPairsMatch ==
    Traced =>
        \A s \in 0..(Ctx.LcsLength - 1) :
            /\ InRange(s)
            /\ Lines1[Lcs.A[s] + 1].Hash = Lines2[Lcs.B[s] + 1].Hash
            /\ s > 0 => /\ InRange(s - 1)
                        /\ Lcs.A[s - 1] < Lcs.A[s]
                        /\ Lcs.B[s - 1] < Lcs.B[s]

\* the strictly increasing index sequences of length n into a file of count lines
IncreasingIndices(n, count) ==
    {s \in [1..n -> 0..(count - 1)] : \A k \in 1..(n - 1) : s[k] < s[k + 1]}

\* the common subsequences of length n of the two fingerprint sequences, each as
\* a pair <<indices into A, indices into B>>
CommonSubsequences(n) ==
    {p \in IncreasingIndices(n, CountA) \X IncreasingIndices(n, CountB) :
        \A k \in 1..n : Lines1[p[1][k] + 1].Hash = Lines2[p[2][k] + 1].Hash}

\* s comes before t, or equals it, in lexicographic order
LexLeq(s, t) ==
    \/ s = t
    \/ \E k \in 1..Len(s) : /\ s[k] < t[k]
                            /\ \A j \in 1..(k - 1) : s[j] = t[j]

\* C26: among all longest common subsequences of the two fingerprint sequences
\* the pairs (LcsA, LcsB) the LCS engine returns are the one whose sequence of
\* indices into B is lexicographically smallest, also with repeated fingerprints.
C26_LexSmallestLcs ==
    Traced =>
        LET n == Ctx.LcsLength
            outA == [k \in 1..n |-> Lcs.A[k - 1]]
            outB == [k \in 1..n |-> Lcs.B[k - 1]]
        IN  /\ Lcs.Written = 0..(n - 1)
            /\ <<outA, outB>> \in CommonSubsequences(n)
            /\ CommonSubsequences(n + 1) = {}
            /\ \A p \in CommonSubsequences(n) : LexLeq(outB, p[2])

\* the rows of PredecessorsB one downward scan of the traceback reads
RECURSIVE ScanReads(_, _, _)
ScanReads(PredecessorsB, i, currentB) ==
    IF i < 0 THEN {}
    ELSE IF PredecessorsB[i] = currentB THEN {i}
    ELSE {i} \cup ScanReads(PredecessorsB, i - 1, currentB)

\* the rows of PredecessorsA / PredecessorsB the traceback loop reads
RECURSIVE TraceReads(_, _, _, _, _)
TraceReads(PredecessorsA, PredecessorsB, i, currentA, currentB) ==
    IF i = 0 THEN {}
    ELSE LET prevB == PredecessorsA[currentA]
         IN  IF prevB = SIZE_MAX THEN {currentA}
             ELSE {currentA}
                  \cup ScanReads(PredecessorsB, currentA - 1, prevB)
                  \cup TraceReads(PredecessorsA, PredecessorsB, i - 1,
                                  ScanDown(PredecessorsB, currentA - 1, prevB, currentA),
                                  prevB)

TracebackReads(ctx, countA, PredecessorsA, PredecessorsB) ==
    LET currentB == ctx.Thresholds[ctx.LcsLength]
    IN  ScanReads(PredecessorsB, countA - 1, currentB)
        \cup TraceReads(PredecessorsA, PredecessorsB, ctx.LcsLength,
                        ScanDown(PredecessorsB, countA - 1, currentB, 0), currentB)

\* C30: during one _FC_FindLcs call the traceback reads only rows of
\* PredecessorsA / PredecessorsB that the main loop of the call wrote, the
\* indices into Thresholds and the Predecessors arrays are within the allocated
\* bounds, and every slot 0..LcsLength-1 of LcsA / LcsB is written before the
\* resync filter or the emitter reads it.
C30_ReadsOnlyWhatWasWritten ==
    /\ (Branch = "text" /\ pc = "traceback") =>
          /\ DOMAIN Ctx.Thresholds = 0..CountA
          /\ DOMAIN Ctx.PredecessorsA = 0..(CountA - 1)
          /\ Ctx.LcsLength \in 1..CountA
          /\ Ctx.Written \subseteq 0..(CountA - 1)
          /\ \A heapA, heapB \in [(0..(CountA - 1)) \ Ctx.Written -> Garbage] :
                TracebackReads(Ctx, CountA,
                               Overlay(Ctx.PredecessorsA, Ctx.Written, heapA),
                               Overlay(Ctx.PredecessorsB, Ctx.Written, heapB))
                    \subseteq Ctx.Written
    /\ (Branch = "text" /\ pc = "filter"
            /\ ~(Ctx.LcsLength = CountA /\ Ctx.LcsLength = CountB)) =>
          Lcs.Written = 0..(Ctx.LcsLength - 1)

\* wmain has parsed its options and gone on to the comparison
OptionsParsed == pc \notin {"wmain", "options"} /\ Args.Config

\* the arguments before the two file names
Options == SubSeq(Argv, 1, Len(Argv) - 2)

\* the mode an option names: B binary, L text-ASCII, U text-Unicode, in either
\* case and with either prefix
NamesMode(Option) == Len(Option) = 2 /\ Option[2] \in {"B", "b", "L", "l", "U", "u"}

ModeNamed(Option) ==
    IF Option[2] \in {"B", "b"} THEN FC_MODE_BINARY
    ELSE IF Option[2] \in {"L", "l"} THEN FC_MODE_TEXT_ASCII
    ELSE FC_MODE_TEXT_UNICODE

\* C23: after the CLI has parsed its options the comparison mode is the one
\* named by the last of the options B, L, U on the command line, for every
\* sequence of valid options, and FC_MODE_AUTO when none of the three is given.
C23_LastModeOptionWins ==
    OptionsParsed =>
        LET named == {k \in DOMAIN Options : NamesMode(Options[k])}
        IN  IF named = {}
            THEN Mode = FC_MODE_AUTO
            ELSE Mode = ModeNamed(Options[CHOOSE k \in named :
                                             \A j \in named : j <= k])

\* the events of the ledger of a given kind
EventsOf(kind) == {i \in DOMAIN Ledger : Ledger[i][1] = kind}

\* C21: in every mode the callback is invoked zero times during a call whose
\* result is identical, invalid-param, io-error or memory-error: a callback
\* invocation implies that the call returns different.
C21_CallbackImpliesDifferent ==
    /\ Callbacks # <<>> => pc = "done"
    /\ (Done /\ Result # FC_DIFFERENT) =>
          /\ Result \in {FC_OK, FC_ERROR_IO, FC_ERROR_INVALID_PARAM, FC_ERROR_MEMORY}
          /\ Callbacks = <<>>

\* C21 witness: a text comparison of two different files whose LCS was traced
\* back ends in memory-error because an array of the resync filter was not
\* allocated, and the callback was never invoked
C21_Witness ==
    /\ Done
    /\ Branch = "text"
    /\ Result = FC_ERROR_MEMORY
    /\ Ctx.LcsLength > 0
    /\ TextsOf(Lines1) # TextsOf(Lines2)
    /\ \E i \in EventsOf("fail") : Ledger[i][2] = FilteredLcsB
    /\ Callbacks = <<>>

\* the number of events of a kind for resource x among the first n events of l
CountEvents(l, kind, x, n) ==
    Cardinality({i \in 1..n : l[i][1] = kind /\ l[i][2] = x})

\* resource x is held after the first n events of l
Held(l, x, n) == CountEvents(l, "acquire", x, n) > CountEvents(l, "release", x, n)

\* C28: at return from a comparison call, on every exit path, every file
\* handle, mapping, view and heap block acquired during the call has been
\* released exactly once: a release is always of a held resource (no double
\* release), a resource is acquired only while not held, and nothing is held
\* when the call has returned (no leak)
C28_ReleasedExactlyOnce ==
    /\ \A i \in EventsOf("release") : Held(Ledger, Ledger[i][2], i - 1)
    /\ \A i \in EventsOf("acquire") : ~Held(Ledger, Ledger[i][2], i - 1)
    /\ Done => \A i \in EventsOf("acquire") : ~Held(Ledger, Ledger[i][2], Len(Ledger))

\* C28 witness: a call through the UTF-8 entry point acquired the wide path,
\* both file buffers and the text of a second line, failed to allocate the
\* second traceback array, and has returned
C28_Witness ==
    /\ Done
    /\ Result = FC_ERROR_MEMORY
    /\ \E i \in EventsOf("fail") : Ledger[i][2] = LcsBBlock
    /\ \E i \in EventsOf("acquire") : Ledger[i][2] = WidePath(1)
    /\ \E i \in EventsOf("acquire") : Ledger[i][2] = Buffer(2)
    /\ \E i \in EventsOf("acquire") : Ledger[i][2] = LineText(2, 1)
    /\ \E i \in EventsOf("release") : Ledger[i][2] = LineText(2, 1)

\* C22: if any heap allocation made during a comparison fails (canonical path
\* copy, classifier read buffer, file buffer, line storage, lowercase scratch,
\* hash map, match pool, LCS arrays, resync filter arrays), the call returns
\* memory-error and not any other result
C22_AllocationFailureIsMemoryError ==
    (Done /\ \E i \in EventsOf("fail") : Ledger[i][2] \in AllocationSites)
        => Result = FC_ERROR_MEMORY

\* C29: every comparison call terminates for all inputs: with every step of
\* the call eventually taken, the call returns, whatever the files (empty, of
\* one line, without a common line) and whatever the unwritten rows hold while
\* both traceback scans count their size_t index down past 0
C29_CallTerminates == <>Done

\* C29 witness: a text comparison has returned after a traceback whose scan
\* index was counted down past 0 to (size_t)-1 on files with one line each way
C29_Witness ==
    /\ Done
    /\ Branch = "text"
    /\ CountA = 1
    /\ CountB > 1
    /\ Lcs.Written # {}
    /\ Callbacks # <<>>

====
